---- MODULE Spec2Model ----
(***************************************************************************)
(* NetAutoTest: the campaign orchestrator (TestCampaign.run), the network  *)
(* handle it owns (NetworkSimulator) and the threshold validator           *)
(* (TestCampaign.validate_thresholds).                                     *)
(*                                                                         *)
(* Numbers are integers: milliseconds, percent and Mbps are modelled on    *)
(* the integer grid, which keeps every comparison of the code exact.       *)
(* A value read from the YAML mapping is <<n>> for the number n and <<>>   *)
(* for a null (Python None); comparing a number with None raises          *)
(* TypeError in Python 3.                                                  *)
(***************************************************************************)
EXTENDS Integers, Sequences, FiniteSets, TLC

VARIABLES
    pc,               \* position of the caller's thread inside run()
    simulator,        \* TestCampaign.simulator: "None" or "Sim"
    net,              \* NetworkSimulator.net: "None" or "Net"
    netUp,            \* the Containernet network is started and not yet stopped
    hosts,            \* len(net.hosts)
    errors,           \* run(): errors
    iperf_results,    \* run(): iperf_results
    latency_results,  \* run(): latency_results
    passed,           \* run(): passed, "unbound" until validate_thresholds returns
    exc,              \* exception in flight inside run(), "none" if none
    result,           \* the TestCampaignResult built by run(), NoResult before
    thresholds,       \* config["tests"]["thresholds"]
    protocols,        \* config["tests"]["protocols"]
    iterations,       \* config["tests"]["iterations"]
    drv,              \* the IperfTest of the protocol being run, and the loop state
    calls,            \* history: how often each collaborator operation was invoked
    trace,            \* history: the order of the lifecycle steps of run()
    outcomes,         \* history: how network start and the two phases ended
    vArgs,            \* validate_thresholds called on its own: the arguments
    vRet,             \* validate_thresholds called on its own: the outcome
    ip,               \* an IperfTest driven on its own: the object, its processes, the call
    pa,               \* _parse_json_result called on its own: the arguments and the outcome
    lt,               \* LatencyTest.run_test on its own: the sampler loop and its result
    sv,               \* a LatencyTest and its responder threads: start_server, stop_server
    sg,               \* a NetworkSimulator under SIGINT/SIGTERM: stop() and the handler
    tp,               \* create_topology called on its own: the arguments and the network
    tx                \* _parse_text_result called on its own: the text and the outcome

vars == <<pc, simulator, net, netUp, hosts, errors, iperf_results, latency_results,
          passed, exc, result, thresholds, protocols, iterations, drv, calls, trace,
          outcomes, vArgs, vRet, ip, pa, lt, sv, sg, tp, tx>>

unitVars == <<ip, pa, lt, sv, sg, tp, tx>>

campaignVars == <<pc, simulator, net, netUp, hosts, errors, iperf_results,
                  latency_results, passed, exc, result, thresholds, protocols,
                  iterations, drv, calls, trace, outcomes>>

-----------------------------------------------------------------------------
(* Bounds of the model *)

MaxHosts == 3          \* hosts of the started network: 0 .. MaxHosts
MaxIterations == 2     \* config tests.iterations: 0 .. MaxIterations
MaxResults == 2        \* length of the lists handed to validate_thresholds on its own

-----------------------------------------------------------------------------
(* Threshold configuration: dict.get with the defaults of validate_thresholds *)

DefaultMaxLatencyMs == 50
DefaultMaxPacketLossPercent == 1
DefaultMinThroughputMbps == 10

ThresholdKeys == {"max_latency_ms", "max_packet_loss_percent", "min_throughput_mbps"}

\* Configured values: one number next to the default of the key, or null.
ConfiguredValues(key) ==
    CASE key = "max_latency_ms"          -> {<<DefaultMaxLatencyMs - 1>>, <<>>}
      [] key = "max_packet_loss_percent" -> {<<DefaultMaxPacketLossPercent + 1>>, <<>>}
      [] key = "min_throughput_mbps"     -> {<<DefaultMinThroughputMbps + 1>>, <<>>}

\* Every mapping over a subset of the recognised keys.
ThresholdConfigs ==
    UNION { { t \in [ks -> UNION {ConfiguredValues(k) : k \in ThresholdKeys}] :
                \A k \in ks : t[k] \in ConfiguredValues(k) } :
            ks \in SUBSET ThresholdKeys }

\* dict.get(key, default)
Get(d, key, default) == IF key \in DOMAIN d THEN d[key] ELSE <<default>>

IsNone(v) == v = <<>>
Num(v) == v[1]

max_latency(th) == Get(th, "max_latency_ms", DefaultMaxLatencyMs)

\* the default of the neighbouring key
max_loss_mutant(th) == Get(th, "max_packet_loss_percent", DefaultMaxLatencyMs)

max_loss(th) == Get(th, "max_packet_loss_percent", DefaultMaxPacketLossPercent)

min_throughput(th) == Get(th, "min_throughput_mbps", DefaultMinThroughputMbps)

-----------------------------------------------------------------------------
(* Result records, reduced to the fields the orchestrator reads *)

RttMeanValues == {DefaultMaxLatencyMs - 1, DefaultMaxLatencyMs, DefaultMaxLatencyMs + 1}
LossValues == {DefaultMaxPacketLossPercent, DefaultMaxPacketLossPercent + 1,
               DefaultMaxPacketLossPercent + 2}
ThroughputValues == {DefaultMinThroughputMbps - 1, DefaultMinThroughputMbps,
                     DefaultMinThroughputMbps + 1}

LatencyResults == [rtt_mean_ms : RttMeanValues, packet_loss_percent : LossValues]
IperfResults == [protocol : {"tcp", "udp"}, throughput_mbps : ThroughputValues]

SeqsUpTo(S, n) == UNION { [1..k -> S] : k \in 0..n }

-----------------------------------------------------------------------------
(* TestCampaign.validate_thresholds *)

LatencyViolation_mutant(r, limit) == r.rtt_mean_ms >= limit

LatencyViolation(r, limit) == r.rtt_mean_ms > limit

LossViolation(r, limit) == r.packet_loss_percent > limit

ThroughputViolation(r, limit) == r.throughput_mbps < limit

AppendError_mutant(errs, msg) == IF errs = <<>> THEN <<msg>> ELSE errs

AppendError(errs, msg) == Append(errs, msg)

Raise == [raised |-> TRUE, errors |-> <<>>]

\* One pass of the body of "for result in latency_results".
LatencyStep(acc, r, th) ==
    IF acc.raised THEN acc
    ELSE IF IsNone(max_latency(th)) THEN Raise
    ELSE LET e1 == IF LatencyViolation(r, Num(max_latency(th)))
                   THEN AppendError(acc.errors,
                            [kind |-> "latency", value |-> r.rtt_mean_ms,
                             threshold |-> Num(max_latency(th))])
                   ELSE acc.errors
         IN  IF IsNone(max_loss(th)) THEN Raise
             ELSE IF LossViolation(r, Num(max_loss(th)))
                  THEN [raised |-> FALSE,
                        errors |-> AppendError(e1,
                            [kind |-> "loss", value |-> r.packet_loss_percent,
                             threshold |-> Num(max_loss(th))])]
                  ELSE [raised |-> FALSE, errors |-> e1]

\* One pass of the body of "for result in iperf_results".
ThroughputStep(acc, r, th) ==
    IF acc.raised THEN acc
    ELSE IF IsNone(min_throughput(th)) THEN Raise
    ELSE IF ThroughputViolation(r, Num(min_throughput(th)))
         THEN [raised |-> FALSE,
               errors |-> AppendError(acc.errors,
                   [kind |-> "throughput", value |-> r.throughput_mbps,
                    threshold |-> Num(min_throughput(th))])]
         ELSE acc

RECURSIVE LatencyLoop(_, _, _, _)
LatencyLoop(acc, rs, i, th) ==
    IF i > Len(rs) THEN acc ELSE LatencyLoop(LatencyStep(acc, rs[i], th), rs, i + 1, th)

RECURSIVE ThroughputLoop(_, _, _, _)
ThroughputLoop(acc, rs, i, th) ==
    IF i > Len(rs) THEN acc
    ELSE ThroughputLoop(ThroughputStep(acc, rs[i], th), rs, i + 1, th)

validate_thresholds_mutant(iperf, lat, th) ==
    LET a0 == [raised |-> FALSE, errors |-> <<>>]
        a1 == IF iperf # <<>> THEN ThroughputLoop(a0, iperf, 1, th) ELSE a0
        a2 == IF lat # <<>> THEN LatencyLoop(a1, lat, 1, th) ELSE a1
    IN  [called |-> TRUE, raised |-> a2.raised,
         passed |-> (~a2.raised /\ Len(a2.errors) = 0), errors |-> a2.errors]

\* The outcome of validate_thresholds(iperf, lat): it raises, or returns (passed, errors).
validate_thresholds(iperf, lat, th) ==
    LET a0 == [raised |-> FALSE, errors |-> <<>>]
        a1 == IF lat # <<>> THEN LatencyLoop(a0, lat, 1, th) ELSE a0
        a2 == IF iperf # <<>> THEN ThroughputLoop(a1, iperf, 1, th) ELSE a1
    IN  [called |-> TRUE, raised |-> a2.raised,
         passed |-> (~a2.raised /\ Len(a2.errors) = 0), errors |-> a2.errors]

NotCalled == [called |-> FALSE, raised |-> FALSE, passed |-> FALSE, errors |-> <<>>]

NoArgs == [iperf |-> <<>>, lat |-> <<>>, th |-> <<>>]

-----------------------------------------------------------------------------
(* State of a run before it starts *)

NoResult == [built |-> FALSE]

\* The LatencyTest of the latency phase, before it is created.
NoProbe == [created |-> FALSE, running |-> FALSE, server_socket |-> "None"]

\* live counts the iperf3 server processes started and not yet terminated.
NoDriver == [proto |-> 0, server_process |-> "None", i |-> 0,
             results |-> <<>>, all_results |-> <<>>, live |-> 0, latency |-> NoProbe]

\* reported is the object that was handed to _generate_reports.
NoOutcomes == [start |-> "none", iperf |-> "none", latency |-> "none",
               reported |-> NoResult]

NoCalls == [stop_network |-> 0, net_stop |-> 0, iperf_server |-> 0, iperf_client |-> 0,
            latency_server |-> 0, sleeps |-> 0, validate |-> 0, reports |-> 0]

\* No IperfTest, no parse and no latency test is being exercised on its own.
NoIperf == [active |-> FALSE]

NoParse == [active |-> FALSE]

NoLatency == [active |-> FALSE]

NoResponder == [active |-> FALSE]

NoSignals == [active |-> FALSE]

NoTopology == [active |-> FALSE]

NoText == [active |-> FALSE]

\* Neither the signal handler, create_topology nor the text parser is exercised.
IdleOthers == sg = NoSignals /\ tp = NoTopology /\ tx = NoText

IdleUnits ==
    ip = NoIperf /\ pa = NoParse /\ lt = NoLatency /\ sv = NoResponder /\ IdleOthers

-----------------------------------------------------------------------------
(* validate_thresholds called on its own, on every input within the bounds *)

\* The validator reads throughput_mbps alone of an IperfResult.
ValidatorInputs ==
    [iperf : SeqsUpTo([protocol : {"tcp"}, throughput_mbps : ThroughputValues], MaxResults),
     lat   : SeqsUpTo(LatencyResults, MaxResults),
     th    : ThresholdConfigs]

IdleCampaign ==
    /\ pc = "idle"
    /\ simulator = "None"
    /\ net = "None"
    /\ netUp = FALSE
    /\ hosts = 0
    /\ errors = <<>>
    /\ iperf_results = <<>>
    /\ latency_results = <<>>
    /\ passed = "unbound"
    /\ exc = "none"
    /\ result = NoResult
    /\ drv = NoDriver
    /\ calls = NoCalls
    /\ trace = <<>>
    /\ outcomes = NoOutcomes

InitValidate ==
    /\ IdleCampaign
    /\ thresholds = <<>>
    /\ protocols = <<>>
    /\ iterations = 0
    /\ vArgs \in ValidatorInputs
    /\ vRet = NotCalled
    /\ IdleUnits

ValidateCall ==
    /\ ~vRet.called
    /\ vRet' = validate_thresholds(vArgs.iperf, vArgs.lat, vArgs.th)
    /\ UNCHANGED <<campaignVars, vArgs, unitVars>>

NextValidate == ValidateCall

SpecValidate == InitValidate /\ [][NextValidate]_vars

-----------------------------------------------------------------------------
(* TestCampaign.run(): one action per step of the caller's thread *)

ProtocolLists == {<<>>, <<"tcp">>, <<"udp">>, <<"tcp", "udp">>, <<"udp", "tcp">>}

\* The thresholds mapping of a campaign: empty, or with every recognised key.
CampaignThresholds == {t \in ThresholdConfigs : DOMAIN t \in {{}, ThresholdKeys}}

Init ==
    /\ IdleCampaign
    /\ thresholds \in CampaignThresholds
    /\ protocols \in ProtocolLists
    /\ iterations \in 0..MaxIterations
    /\ vArgs = NoArgs
    /\ vRet = NotCalled
    /\ IdleUnits

Bump(field) == [calls EXCEPT ![field] = @ + 1]

\* run() up to the try: the start timestamp, the identifier, the three empty lists.
Run ==
    /\ pc = "idle"
    /\ pc' = "start_network"
    /\ errors' = <<>>
    /\ iperf_results' = <<>>
    /\ latency_results' = <<>>
    /\ UNCHANGED <<simulator, net, netUp, hosts, passed, exc, result, thresholds,
                   protocols, iterations, drv, calls, trace, outcomes, vArgs, vRet, unitVars>>

\* How far start_network gets: the NetworkSimulator constructor raises (the YAML does
\* not load), Containernet() raises, create_topology or net.start() raises with the
\* network object already held, pingAll raises on the started network, or all succeed.
StartOutcomes == {"config_raises", "containernet_raises", "topology_raises",
                  "net_start_raises", "ping_raises", "ok"}

StartNetwork ==
    /\ pc = "start_network"
    /\ \E outcome \in StartOutcomes, n \in 0..MaxHosts :
        /\ simulator' = IF outcome = "config_raises" THEN "None" ELSE "Sim"
        /\ net' = IF outcome \in {"config_raises", "containernet_raises"}
                  THEN "None" ELSE "Net"
        /\ hosts' = IF outcome \in {"config_raises", "containernet_raises"} THEN 0 ELSE n
        /\ netUp' = (outcome \in {"ping_raises", "ok"})
        /\ exc' = IF outcome = "ok" THEN "none" ELSE "network"
        /\ pc' = IF outcome = "ok" THEN "iperf" ELSE "finally"
        /\ outcomes' = [outcomes EXCEPT !.start = outcome]
    /\ trace' = Append(trace, "start_network")
    /\ UNCHANGED <<errors, iperf_results, latency_results, passed, result, thresholds,
                   protocols, iterations, drv, calls, vArgs, vRet, unitVars>>

TooFewHosts_mutant(n) == n < 1

\* "if len(hosts) < 2: raise RuntimeError", in both phases
TooFewHosts(n) == n < 2

IperfPhaseError(cause) == [kind |-> "iperf_phase", cause |-> cause]

LatencyPhaseError(cause) == [kind |-> "latency_phase", cause |-> cause]

CatchIperf_mutant(errs, cause) == [errors |-> errs, pc |-> "finally", exc |-> "iperf"]

CatchIperf_resume(errs, cause) ==
    [errors |-> Append(errs, IperfPhaseError(cause)), pc |-> "iperf_protocol",
     exc |-> "none"]

\* "except Exception" around run_iperf_tests: one entry, then on to the latency phase.
CatchIperf(errs, cause) ==
    [errors |-> Append(errs, IperfPhaseError(cause)), pc |-> "latency", exc |-> "none"]

\* "except Exception" around run_latency_tests: one entry, then on to the validation.
CatchLatency(errs, cause) ==
    [errors |-> Append(errs, LatencyPhaseError(cause)), pc |-> "validate", exc |-> "none"]

\* run_iperf_tests up to the protocol loop: the two guards, then hosts[0] and hosts[1].
IperfEnter ==
    /\ pc = "iperf"
    /\ trace' = Append(trace, "iperf")
    /\ IF simulator = "None" \/ TooFewHosts(hosts)
       THEN LET h == CatchIperf(errors,
                         IF simulator = "None" THEN "not_started" ELSE "hosts")
            IN  /\ errors' = h.errors
                /\ pc' = h.pc
                /\ exc' = h.exc
                /\ drv' = drv
                /\ outcomes' = [outcomes EXCEPT !.iperf = "raised"]
       ELSE /\ pc' = "iperf_protocol"
            /\ drv' = [NoDriver EXCEPT !.proto = 1]
            /\ UNCHANGED <<errors, exc, outcomes>>
    /\ UNCHANGED <<simulator, net, netUp, hosts, iperf_results, latency_results, passed,
                   result, thresholds, protocols, iterations, calls, vArgs, vRet, unitVars>>

\* Head of "for protocol in protocols": a fresh IperfTest, or return all_results.
IperfProtocol ==
    /\ pc = "iperf_protocol"
    /\ IF drv.proto > Len(protocols)
       THEN /\ iperf_results' = drv.all_results
            /\ pc' = "latency"
            /\ drv' = drv
            /\ outcomes' = [outcomes EXCEPT !.iperf = "ok"]
       ELSE /\ iperf_results' = iperf_results
            /\ pc' = "iperf_test"
            /\ drv' = [drv EXCEPT !.server_process = "None", !.i = 0, !.results = <<>>]
            /\ outcomes' = outcomes
    /\ UNCHANGED <<simulator, net, netUp, hosts, errors, latency_results, passed, exc,
                   result, thresholds, protocols, iterations, calls, trace, vArgs, vRet, unitVars>>

extend_mutant(all_results, results) == results \o all_results

\* all_results.extend(results)
extend(all_results, results) == all_results \o results

stop_server_mutant(d) == d

\* IperfTest.stop_server: terminate and wait if a process is held.
stop_server(d) ==
    [d EXCEPT !.server_process = "None",
              !.live = IF d.server_process = "Proc" THEN @ - 1 ELSE @]

\* One pass of the loop of run_multiple_tests: run_test (start_server if no process is
\* held, then the client), the append and the sleep between two tests. A failure of
\* popen or of the client leaves through "finally: stop_server" and is caught by run().
\* After the last pass the results extend all_results and the responder is stopped.
IperfTestOutcomes == {"popen_raises", "test_raises", "ok"}

IperfRunTest ==
    /\ pc = "iperf_test"
    /\ IF drv.i >= iterations
       THEN /\ drv' = [stop_server(drv) EXCEPT
                           !.all_results = extend(drv.all_results, drv.results),
                           !.proto = drv.proto + 1]
            /\ pc' = "iperf_protocol"
            /\ UNCHANGED <<errors, exc, calls, outcomes>>
       ELSE \E outcome \in IperfTestOutcomes, mbps \in ThroughputValues :
            LET spawn == drv.server_process = "None"
                c1 == IF spawn THEN Bump("iperf_server") ELSE calls
                h == CatchIperf(errors, outcome)
                served == IF spawn /\ outcome # "popen_raises"
                          THEN [drv EXCEPT !.server_process = "Proc", !.live = @ + 1]
                          ELSE drv
            IN  /\ (outcome = "popen_raises") => spawn
                /\ IF outcome = "ok"
                   THEN /\ drv' = [served EXCEPT
                               !.i = drv.i + 1,
                               !.results = Append(drv.results,
                                   [protocol |-> protocols[drv.proto],
                                    throughput_mbps |-> mbps,
                                    iteration |-> drv.i + 1])]
                        /\ calls' = [c1 EXCEPT
                               !.iperf_client = @ + 1,
                               !.sleeps = IF drv.i < iterations - 1 THEN @ + 1 ELSE @]
                        /\ pc' = "iperf_test"
                        /\ UNCHANGED <<errors, exc, outcomes>>
                   ELSE /\ drv' = stop_server(served)
                        /\ calls' = IF outcome = "popen_raises" THEN c1
                                    ELSE [c1 EXCEPT !.iperf_client = @ + 1]
                        /\ errors' = h.errors
                        /\ pc' = h.pc
                        /\ exc' = h.exc
                        /\ outcomes' = [outcomes EXCEPT !.iperf = "raised"]
    /\ UNCHANGED <<simulator, net, netUp, hosts, iperf_results, latency_results, passed,
                   result, thresholds, protocols, iterations, trace, vArgs, vRet, unitVars>>

\* LatencyTest.run_test begins with start_server: the flag is set and the thread
\* publishes its socket.
latency_start_server(p) == [created |-> TRUE, running |-> TRUE, server_socket |-> "Sock"]

latency_stop_server_mutant(p) == p

\* LatencyTest.stop_server: the flag is cleared and server_socket reset.
latency_stop_server(p) == [p EXCEPT !.running = FALSE, !.server_socket = "None"]

\* run_latency_tests: the two guards, then LatencyTest.run_test under
\* "finally: stop_server"; the list of one result, or an exception caught by run().
LatencyPhase ==
    /\ pc = "latency"
    /\ trace' = Append(trace, "latency")
    /\ IF simulator = "None" \/ TooFewHosts(hosts)
       THEN LET h == CatchLatency(errors,
                         IF simulator = "None" THEN "not_started" ELSE "hosts")
            IN  /\ errors' = h.errors
                /\ pc' = h.pc
                /\ exc' = h.exc
                /\ outcomes' = [outcomes EXCEPT !.latency = "raised"]
                /\ UNCHANGED <<latency_results, calls, drv>>
       ELSE \E raises \in BOOLEAN, r \in LatencyResults :
            LET h == CatchLatency(errors, "test_raises")
            IN  /\ calls' = Bump("latency_server")
                /\ drv' = [drv EXCEPT
                       !.latency = latency_stop_server(latency_start_server(@))]
                /\ IF raises
                   THEN /\ errors' = h.errors
                        /\ pc' = h.pc
                        /\ exc' = h.exc
                        /\ outcomes' = [outcomes EXCEPT !.latency = "raised"]
                        /\ latency_results' = latency_results
                   ELSE /\ latency_results' = <<r>>
                        /\ pc' = "validate"
                        /\ outcomes' = [outcomes EXCEPT !.latency = "ok"]
                        /\ UNCHANGED <<errors, exc>>
    /\ UNCHANGED <<simulator, net, netUp, hosts, iperf_results, passed, result,
                   thresholds, protocols, iterations, vArgs, vRet, unitVars>>

\* "passed, threshold_errors = self.validate_thresholds(...)" and errors.extend, inside
\* the try: an exception of the validator leaves through the finally.
Validate ==
    /\ pc = "validate"
    /\ trace' = Append(trace, "validate")
    /\ calls' = Bump("validate")
    /\ pc' = "finally"
    /\ LET v == validate_thresholds(iperf_results, latency_results, thresholds)
       IN  IF v.raised
           THEN /\ exc' = "validate"
                /\ UNCHANGED <<passed, errors>>
           ELSE /\ exc' = exc
                /\ passed' = IF v.passed THEN "True" ELSE "False"
                /\ errors' = errors \o v.errors
    /\ UNCHANGED <<simulator, net, netUp, hosts, iperf_results, latency_results, result,
                   thresholds, protocols, iterations, drv, outcomes, vArgs, vRet, unitVars>>

\* stop_network placed after the try instead of in its finally
StopNetwork_mutant ==
    /\ pc = "finally"
    /\ IF exc # "none"
       THEN /\ pc' = "raised"
            /\ UNCHANGED <<simulator, net, netUp, calls, trace>>
       ELSE /\ pc' = "assemble"
            /\ simulator' = "None"
            /\ net' = "None"
            /\ netUp' = FALSE
            /\ calls' = [calls EXCEPT !.stop_network = @ + 1, !.net_stop = @ + 1]
            /\ trace' = Append(trace, "stop_network")
    /\ UNCHANGED <<hosts, errors, iperf_results, latency_results, passed, exc, result,
                   thresholds, protocols, iterations, drv, outcomes, vArgs, vRet, unitVars>>

\* The finally of run(): stop_network. NetworkSimulator.stop returns at once when no
\* network object is held; net.stop() may raise, and then neither net nor
\* self.simulator is reset and the exception replaces the one in flight. With an
\* exception in flight after the finally, run() is left by it.
StopNetwork ==
    /\ pc = "finally"
    /\ trace' = Append(trace, "stop_network")
    /\ IF simulator = "None"
       THEN /\ calls' = Bump("stop_network")
            /\ pc' = IF exc = "none" THEN "assemble" ELSE "raised"
            /\ UNCHANGED <<simulator, net, netUp, exc>>
       ELSE IF net = "None"
       THEN /\ calls' = Bump("stop_network")
            /\ simulator' = "None"
            /\ pc' = IF exc = "none" THEN "assemble" ELSE "raised"
            /\ UNCHANGED <<net, netUp, exc>>
       ELSE \E stop_raises \in BOOLEAN :
            /\ calls' = [calls EXCEPT !.stop_network = @ + 1, !.net_stop = @ + 1]
            /\ IF stop_raises
               THEN /\ exc' = "release"
                    /\ pc' = "raised"
                    /\ UNCHANGED <<simulator, net, netUp>>
               ELSE /\ net' = "None"
                    /\ netUp' = FALSE
                    /\ simulator' = "None"
                    /\ exc' = exc
                    /\ pc' = IF exc = "none" THEN "assemble" ELSE "raised"
    /\ UNCHANGED <<hosts, errors, iperf_results, latency_results, passed, result,
                   thresholds, protocols, iterations, drv, outcomes, vArgs, vRet, unitVars>>

CampaignPassed_mutant(p, errs) == p = "True"

\* "passed=passed and len(errors) == 0"
CampaignPassed(p, errs) == p = "True" /\ Len(errs) = 0

\* The result built inside the try, before the finally has released the network
Assemble_mutant ==
    /\ pc \in {"finally", "assemble"}
    /\ exc = "none"
    /\ trace' = Append(trace, "assemble")
    /\ result' = [built |-> TRUE,
                  iperf_results |-> iperf_results,
                  latency_results |-> latency_results,
                  thresholds |-> thresholds,
                  passed |-> CampaignPassed(passed, errors),
                  errors |-> errors]
    /\ pc' = "report"
    /\ UNCHANGED <<simulator, net, netUp, hosts, errors, iperf_results, latency_results,
                   passed, exc, thresholds, protocols, iterations, drv, calls, outcomes,
                   vArgs, vRet, unitVars>>

\* The TestCampaignResult constructor call.
Assemble ==
    /\ pc = "assemble"
    /\ trace' = Append(trace, "assemble")
    /\ result' = [built |-> TRUE,
                  iperf_results |-> iperf_results,
                  latency_results |-> latency_results,
                  thresholds |-> thresholds,
                  passed |-> CampaignPassed(passed, errors),
                  errors |-> errors]
    /\ pc' = "report"
    /\ UNCHANGED <<simulator, net, netUp, hosts, errors, iperf_results, latency_results,
                   passed, exc, thresholds, protocols, iterations, drv, calls, outcomes,
                   vArgs, vRet, unitVars>>

\* _generate_reports(result), then "return result"; an exception of the report
\* generation leaves run() before the return.
Report ==
    /\ pc = "report"
    /\ trace' = Append(trace, "report")
    /\ calls' = Bump("reports")
    /\ outcomes' = [outcomes EXCEPT !.reported = result]
    /\ \E report_raises \in BOOLEAN :
        IF report_raises
        THEN exc' = "report" /\ pc' = "raised"
        ELSE exc' = exc /\ pc' = "returned"
    /\ UNCHANGED <<simulator, net, netUp, hosts, errors, iperf_results, latency_results,
                   passed, result, thresholds, protocols, iterations, drv,
                   vArgs, vRet, unitVars>>

Next ==
    \/ Run
    \/ StartNetwork
    \/ IperfEnter
    \/ IperfProtocol
    \/ IperfRunTest
    \/ LatencyPhase
    \/ Validate
    \/ StopNetwork
    \/ Assemble
    \/ Report

Spec == Init /\ [][Next]_vars

-----------------------------------------------------------------------------
(* Properties of run() *)

Range(f) == {f[i] : i \in DOMAIN f}

\* Position of the first occurrence of step in the trace, 0 if it is absent.
Pos(step) ==
    IF step \in Range(trace)
    THEN CHOOSE i \in DOMAIN trace : trace[i] = step /\ \A j \in 1..(i - 1) : trace[j] # step
    ELSE 0

Count(errs, kinds) == Cardinality({i \in DOMAIN errs : errs[i].kind \in kinds})

ViolationKinds == {"latency", "loss", "throughput"}

PastFinally == pc \in {"assemble", "report", "returned", "raised"}

FullOrder == <<"start_network", "iperf", "latency", "validate", "stop_network",
               "assemble", "report">>

IsPrefix(s, t) == Len(s) <= Len(t) /\ \A i \in DOMAIN s : s[i] = t[i]

C2_NetworkFailureReturnsResult ==
    (outcomes.start \notin {"none", "ok"} /\ pc \in {"returned", "raised"}) =>
        /\ pc = "returned"
        /\ result.built
        /\ result.iperf_results = <<>>
        /\ result.latency_results = <<>>
        /\ result.errors # <<>>
        /\ ~result.passed

\* C3: if the throughput phase raises on a started network, the latency phase is
\* still executed after it and the network is still released; the returned result
\* holds exactly one throughput-phase entry and, when the latency phase succeeded,
\* its one result. A latency-phase failure leaves the collected throughput results
\* in the returned result.
C3_PhaseFailureIsolation ==
    /\ (outcomes.iperf = "raised" /\ pc # "latency") =>
           /\ outcomes.latency # "none"
           /\ Pos("latency") > Pos("iperf")
           /\ exc # "iperf"
    /\ (outcomes.iperf = "raised" /\ pc \in {"returned", "raised"}) =>
           /\ calls.stop_network = 1
           /\ calls.net_stop = 1
    /\ (outcomes.iperf = "raised" /\ pc = "returned") =>
           /\ simulator = "None"
           /\ Count(result.errors, {"iperf_phase"}) = 1
           /\ result.iperf_results = <<>>
           /\ (outcomes.latency = "ok") =>
                  /\ Len(result.latency_results) = 1
                  /\ result.latency_results = latency_results
                  /\ Count(result.errors, {"latency_phase"}) = 0
    /\ (outcomes.latency = "raised" /\ outcomes.iperf = "ok" /\ pc = "returned") =>
           /\ result.iperf_results = drv.all_results
           /\ Len(result.iperf_results) = Len(protocols) * iterations
           /\ result.latency_results = <<>>
           /\ Count(result.errors, {"latency_phase"}) = 1
           /\ Count(result.errors, {"iperf_phase"}) = 0

\* C3 witness: a client run failed, the latency phase then produced its result, and
\* run() returned both facts.
C3_Witness ==
    /\ pc = "returned"
    /\ outcomes.iperf = "raised"
    /\ outcomes.latency = "ok"
    /\ calls.iperf_client > 0
    /\ Len(result.latency_results) = 1
    /\ Count(result.errors, {"iperf_phase"}) = 1

\* C4: once run() has started, no exception leaves it, whatever the outcomes of the
\* network start, the phases, the network release and the report hand-off.
C4_NoExceptionEscapesRun == pc # "raised"

\* C5: the passed flag of the result is true exactly when the validator found no
\* violation and no phase error was recorded; passed implies an empty errors list.
C5_PassedIffNoViolationNoPhaseError ==
    result.built =>
        LET phaseError == outcomes.iperf = "raised" \/ outcomes.latency = "raised"
            violations == Count(result.errors, ViolationKinds)
        IN  /\ result.passed <=> (violations = 0 /\ ~phaseError)
            /\ result.passed => result.errors = <<>>
            /\ phaseError => Count(result.errors, {"iperf_phase", "latency_phase"}) >= 1

\* C5 witness: a phase error and no violation: the validator passed, the result did not.
C5_Witness ==
    /\ result.built
    /\ outcomes.iperf = "raised"
    /\ passed = "True"
    /\ Count(result.errors, ViolationKinds) = 0
    /\ ~result.passed

\* C9: a started network with fewer than two hosts: no exception of a phase leaves
\* run(), no iperf3 server or client and no latency responder is ever started, both
\* phases record the configuration error, the network is released, and the result
\* has two empty lists and passed false.
C9_TooFewEndpoints ==
    (outcomes.start = "ok" /\ hosts < 2) =>
        /\ calls.iperf_server = 0
        /\ calls.iperf_client = 0
        /\ calls.latency_server = 0
        /\ exc \notin {"iperf", "latency", "validate"}
        /\ outcomes.iperf \in {"none", "raised"}
        /\ outcomes.latency \in {"none", "raised"}
        /\ (PastFinally) => (calls.stop_network = 1 /\ calls.net_stop = 1)
        /\ (PastFinally /\ exc # "release") => simulator = "None"
        /\ result.built =>
               /\ result.errors = <<IperfPhaseError("hosts"), LatencyPhaseError("hosts")>>
               /\ result.iperf_results = <<>>
               /\ result.latency_results = <<>>
               /\ ~result.passed

\* C9 witness: one host, and run() returned the result with the two entries.
C9_Witness ==
    /\ pc = "returned"
    /\ outcomes.start = "ok"
    /\ hosts = 1
    /\ Len(result.errors) = 2
    /\ simulator = "None"

\* C10 as stated: the network is released before the thresholds are validated.
C10_ReleaseBeforeValidate ==
    ("validate" \in Range(trace)) =>
        /\ "stop_network" \in Range(trace)
        /\ Pos("stop_network") < Pos("validate")

\* C10 amended: the steps of run() follow the order start_network, throughput phase,
\* latency phase, validation, stop_network, assemble, report (or start_network,
\* stop_network when the start failed); the validation has run with the network
\* still held, and the network is released before the result is assembled.
C10_ValidateThenRelease ==
    /\ IsPrefix(trace, FullOrder) \/ IsPrefix(trace, <<"start_network", "stop_network">>)
    /\ (pc = "finally" /\ calls.validate = 1) =>
           (simulator = "Sim" /\ net = "Net" /\ netUp /\ calls.stop_network = 0)
    /\ result.built =>
           (simulator = "None" /\ net = "None" /\ calls.stop_network = 1)

\* C10 witness: a complete run, every step taken in the order of the code.
C10_Witness ==
    /\ pc = "returned"
    /\ trace = FullOrder
    /\ simulator = "None"

-----------------------------------------------------------------------------
(* Properties of validate_thresholds *)

\* The limit a key stands for: the configured number, the default without the key.
Limit(th, key, default) == IF key \in DOMAIN th THEN th[key][1] ELSE default

Breaches(rs, P(_)) == Cardinality({i \in DOMAIN rs : P(rs[i])})

\* C6: the comparisons are strict. For one latency result: a mean above the limit
\* gives exactly one latency message, a mean equal to it none, a loss equal to its
\* limit no loss message; for one throughput result, a throughput equal to its limit
\* gives no message.
C6_StrictComparisons ==
    (vRet.called /\ ~vRet.raised) =>
        /\ Len(vArgs.lat) = 1 =>
               LET r == vArgs.lat[1]
                   lat == Limit(vArgs.th, "max_latency_ms", DefaultMaxLatencyMs)
                   loss == Limit(vArgs.th, "max_packet_loss_percent",
                                 DefaultMaxPacketLossPercent)
               IN  /\ r.rtt_mean_ms > lat => Count(vRet.errors, {"latency"}) = 1
                   /\ r.rtt_mean_ms = lat => Count(vRet.errors, {"latency"}) = 0
                   /\ r.rtt_mean_ms < lat => Count(vRet.errors, {"latency"}) = 0
                   /\ r.packet_loss_percent = loss => Count(vRet.errors, {"loss"}) = 0
        /\ Len(vArgs.iperf) = 1 =>
               LET r == vArgs.iperf[1]
                   thr == Limit(vArgs.th, "min_throughput_mbps", DefaultMinThroughputMbps)
               IN  r.throughput_mbps = thr => Count(vRet.errors, {"throughput"}) = 0

\* C6 witness: every value sits exactly on its limit and nothing is reported.
C6_Witness ==
    /\ vRet.called
    /\ vArgs.th = <<>>
    /\ Len(vArgs.lat) = 1
    /\ vArgs.lat[1].rtt_mean_ms = DefaultMaxLatencyMs
    /\ vArgs.lat[1].packet_loss_percent = DefaultMaxPacketLossPercent
    /\ Len(vArgs.iperf) = 1
    /\ vArgs.iperf[1].throughput_mbps = DefaultMinThroughputMbps
    /\ vRet.errors = <<>>
    /\ vRet.passed

\* C7: every breach is reported: the number of messages is the number of latency
\* results above the latency limit, plus those above the loss limit, plus the
\* throughput results below the throughput limit; an empty list gives no message of
\* its category, and passed is true exactly when there is no message.
C7_AllViolationsAccumulated ==
    (vRet.called /\ ~vRet.raised) =>
        LET th == vArgs.th
            overLat(r) == r.rtt_mean_ms > Limit(th, "max_latency_ms", DefaultMaxLatencyMs)
            overLoss(r) == r.packet_loss_percent >
                               Limit(th, "max_packet_loss_percent",
                                     DefaultMaxPacketLossPercent)
            under(r) == r.throughput_mbps <
                            Limit(th, "min_throughput_mbps", DefaultMinThroughputMbps)
        IN  /\ Len(vRet.errors) = Breaches(vArgs.lat, overLat) + Breaches(vArgs.lat, overLoss)
                                    + Breaches(vArgs.iperf, under)
            /\ Count(vRet.errors, {"latency"}) = Breaches(vArgs.lat, overLat)
            /\ Count(vRet.errors, {"loss"}) = Breaches(vArgs.lat, overLoss)
            /\ Count(vRet.errors, {"throughput"}) = Breaches(vArgs.iperf, under)
            /\ vArgs.lat = <<>> => Count(vRet.errors, {"latency", "loss"}) = 0
            /\ vArgs.iperf = <<>> => Count(vRet.errors, {"throughput"}) = 0
            /\ vRet.passed <=> vRet.errors = <<>>

\* C7 witness: one latency result breaching both of its limits and one throughput
\* result below its limit give three messages.
C7_Witness ==
    /\ vRet.called
    /\ Len(vArgs.lat) = 1
    /\ Len(vArgs.iperf) = 1
    /\ Len(vRet.errors) = 3
    /\ vRet.errors[1].kind = "latency"
    /\ vRet.errors[2].kind = "loss"
    /\ vRet.errors[3].kind = "throughput"

\* C8: a missing key stands for its default (50, 1 and 10), a present key for its
\* configured number, each key on its own: every message carries that limit, and a
\* message is produced exactly for the results that breach it.
C8_ThresholdDefaults ==
    (vRet.called /\ ~vRet.raised) =>
        LET th == vArgs.th
            lat == IF "max_latency_ms" \in DOMAIN th THEN th["max_latency_ms"][1] ELSE 50
            loss == IF "max_packet_loss_percent" \in DOMAIN th
                    THEN th["max_packet_loss_percent"][1] ELSE 1
            thr == IF "min_throughput_mbps" \in DOMAIN th
                   THEN th["min_throughput_mbps"][1] ELSE 10
            m(k) == {i \in DOMAIN vRet.errors : vRet.errors[i].kind = k}
        IN  /\ \A i \in m("latency") : vRet.errors[i].threshold = lat
            /\ \A i \in m("loss") : vRet.errors[i].threshold = loss
            /\ \A i \in m("throughput") : vRet.errors[i].threshold = thr
            /\ {vRet.errors[i].value : i \in m("latency")} =
                   {r.rtt_mean_ms : r \in {x \in Range(vArgs.lat) : x.rtt_mean_ms > lat}}
            /\ {vRet.errors[i].value : i \in m("loss")} =
                   {r.packet_loss_percent :
                        r \in {x \in Range(vArgs.lat) : x.packet_loss_percent > loss}}
            /\ {vRet.errors[i].value : i \in m("throughput")} =
                   {r.throughput_mbps :
                        r \in {x \in Range(vArgs.iperf) : x.throughput_mbps < thr}}

\* C8 witness: max_latency_ms is missing and the default 50 is breached by 51, while
\* the configured loss limit 2 (not the default 1) lets a loss of 2 pass.
C8_Witness ==
    /\ vRet.called
    /\ DOMAIN vArgs.th = {"max_packet_loss_percent"}
    /\ vArgs.th["max_packet_loss_percent"] = <<2>>
    /\ Len(vArgs.lat) = 1
    /\ vArgs.lat[1].rtt_mean_ms = 51
    /\ vArgs.lat[1].packet_loss_percent = 2
    /\ Len(vRet.errors) = 1
    /\ vRet.errors[1].kind = "latency"
    /\ vRet.errors[1].threshold = 50

-----------------------------------------------------------------------------
(* IperfTest._parse_json_result *)

\* An optional field of a result is <<v>> when set and <<>> when None. A rate is
\* the exact fraction <<numerator, denominator>> in lowest terms; percent and
\* milliseconds fields are copied from the document unchanged.
None == <<>>

RECURSIVE GCD(_, _)
GCD(a, b) == IF b = 0 THEN a ELSE GCD(b, a % b)

Ratio(n, d) == IF n = 0 THEN <<0, 1>> ELSE <<n \div GCD(n, d), d \div GCD(n, d)>>

BitsPerMbit == 1000000

\* bits_per_second / 1e6
Mbps(bps) == Ratio(bps, BitsPerMbit)

\* dict.get(key, default) on a JSON object; {} is the empty mapping
get(d, key, default) == IF key \in DOMAIN d THEN d[key] ELSE default

EmptyDict == [k \in {} |-> 0]

\* Every mapping over a subset of the keys of V, key k taking its value in V[k].
PartialMaps(V) ==
    UNION { { f \in [ks -> UNION {V[k] : k \in ks}] : \A k \in ks : f[k] \in V[k] } :
            ks \in SUBSET DOMAIN V }

SumSentValues ==
    [bits_per_second |-> {1000000000}, retransmits |-> {0, 5}, bytes |-> {1000000}]

SumReceivedValues ==
    [bits_per_second |-> {1500000, 500000000, 1000000000}, bytes |-> {999000}]

\* lost_percent and jitter_ms in tenths (5 is 0.5 %, 25 is 2.5 ms)
SumValues ==
    [bits_per_second |-> {1500000, 500000000}, lost_percent |-> {0, 5},
     jitter_ms |-> {25, 40}, bytes |-> {500000}]

TcpEndValues ==
    [sum_sent |-> PartialMaps(SumSentValues),
     sum_received |-> PartialMaps(SumReceivedValues)]

UdpEndValues == [sum |-> PartialMaps(SumValues)]

\* What iperf3 -J prints: an object with or without an "end" record.
JsonObjects ==
    {EmptyDict}
    \cup {[end |-> e] : e \in PartialMaps(TcpEndValues)}
    \cup {[end |-> e] : e \in PartialMaps(UdpEndValues)}

\* The client's captured stdout: free text, JSON that is no object, or an object.
Outputs ==
    {[kind |-> "text"], [kind |-> "json_other"]}
    \cup {[kind |-> "json_object", data |-> d] : d \in JsonObjects}

tcp_throughput_mutant(end_data) ==
    Mbps(get(get(end_data, "sum_sent", EmptyDict), "bits_per_second", 0))

\* sum_received.get("bits_per_second", 0) / 1e6
tcp_throughput(end_data) ==
    Mbps(get(get(end_data, "sum_received", EmptyDict), "bits_per_second", 0))

udp_packet_loss_mutant(sum_data) == get(sum_data, "lost_packets", 0)

\* sum_data.get("lost_percent", 0)
udp_packet_loss(sum_data) == get(sum_data, "lost_percent", 0)

parse_tcp(data, protocol, duration) ==
    LET end_data == get(data, "end", EmptyDict)
        sum_sent == get(end_data, "sum_sent", EmptyDict)
        sum_received == get(end_data, "sum_received", EmptyDict)
    IN  [protocol |-> protocol,
         duration |-> duration,
         throughput_mbps |-> tcp_throughput(end_data),
         retransmissions |-> <<get(sum_sent, "retransmits", 0)>>,
         packet_loss |-> None,
         jitter_ms |-> None,
         bytes_sent |-> <<get(sum_sent, "bytes", 0)>>,
         bytes_received |-> <<get(sum_received, "bytes", 0)>>]

parse_udp(data, protocol, duration) ==
    LET end_data == get(data, "end", EmptyDict)
        sum_data == get(end_data, "sum", EmptyDict)
    IN  [protocol |-> protocol,
         duration |-> duration,
         throughput_mbps |-> Mbps(get(sum_data, "bits_per_second", 0)),
         retransmissions |-> None,
         packet_loss |-> <<udp_packet_loss(sum_data)>>,
         jitter_ms |-> <<get(sum_data, "jitter_ms", 0)>>,
         bytes_sent |-> <<get(sum_data, "bytes", 0)>>,
         bytes_received |-> <<get(sum_data, "bytes", 0)>>]

\* The outcome of _parse_json_result: json.loads fails and RuntimeError is raised,
\* data.get fails on JSON that is no object (AttributeError, not caught here), or
\* the IperfResult of the branch of the protocol.
parse_json_result(output, protocol, duration) ==
    IF output.kind = "text"
    THEN [raised |-> "RuntimeError", cause |-> "parse"]
    ELSE IF output.kind = "json_other"
    THEN [raised |-> "AttributeError", cause |-> "parse"]
    ELSE [raised |-> "none",
          result |-> IF protocol = "tcp"
                     THEN parse_tcp(output.data, protocol, duration)
                     ELSE parse_udp(output.data, protocol, duration)]

Durations == {10, 60}

InitParse ==
    /\ IdleCampaign
    /\ thresholds = <<>>
    /\ protocols = <<>>
    /\ iterations = 0
    /\ vArgs = NoArgs
    /\ vRet = NotCalled
    /\ ip = NoIperf
    /\ lt = NoLatency
    /\ sv = NoResponder
    /\ IdleOthers
    /\ pa \in [active : {TRUE}, called : {FALSE}, output : Outputs,
               protocol : {"tcp", "udp"}, duration : Durations]

ParseCall ==
    /\ pa.active
    /\ ~pa.called
    /\ pa' = [active |-> TRUE, called |-> TRUE, output |-> pa.output,
              protocol |-> pa.protocol, duration |-> pa.duration,
              ret |-> parse_json_result(pa.output, pa.protocol, pa.duration)]
    /\ UNCHANGED <<campaignVars, vArgs, vRet, ip, lt, sv, sg, tp, tx>>

NextParse == ParseCall

SpecParse == InitParse /\ [][NextParse]_vars

Parsed == pa.active /\ pa.called /\ pa.output.kind = "json_object"

\* The record at a path of the parsed document, the empty mapping where it is absent.
At1(k1) == IF k1 \in DOMAIN pa.output.data THEN pa.output.data[k1] ELSE EmptyDict

At2(k1, k2) == IF k2 \in DOMAIN At1(k1) THEN At1(k1)[k2] ELSE EmptyDict

Has(k1, k2, k3) == k3 \in DOMAIN At2(k1, k2)

\* C18: for a structured TCP output the result has throughput_mbps equal to
\* end.sum_received.bits_per_second / 1e6, retransmissions equal to
\* end.sum_sent.retransmits and 0 when that counter is absent, and the requested
\* protocol and duration; 1e9 bit/s and 5 retransmits parse to 1000 Mbps and 5.
C18_TcpExtraction ==
    (Parsed /\ pa.protocol = "tcp") =>
        /\ pa.ret.raised = "none"
        /\ pa.ret.result.protocol = "tcp"
        /\ pa.ret.result.duration = pa.duration
        /\ Has("end", "sum_received", "bits_per_second") =>
               pa.ret.result.throughput_mbps[1] * 1000000 =
                   At2("end", "sum_received").bits_per_second
                       * pa.ret.result.throughput_mbps[2]
        /\ Has("end", "sum_sent", "retransmits") =>
               pa.ret.result.retransmissions = <<At2("end", "sum_sent").retransmits>>
        /\ ~Has("end", "sum_sent", "retransmits") =>
               pa.ret.result.retransmissions = <<0>>
        /\ (/\ Has("end", "sum_received", "bits_per_second")
            /\ At2("end", "sum_received").bits_per_second = 1000000000
            /\ Has("end", "sum_sent", "retransmits")
            /\ At2("end", "sum_sent").retransmits = 5) =>
               /\ pa.ret.result.throughput_mbps = <<1000, 1>>
               /\ pa.ret.result.retransmissions = <<5>>

\* C18 witness: the received side reports 500 Mbit/s, the sent side 1 Gbit/s and 5
\* retransmits; the result carries 500 Mbps and 5.
C18_Witness ==
    /\ Parsed
    /\ pa.protocol = "tcp"
    /\ Has("end", "sum_sent", "bits_per_second")
    /\ Has("end", "sum_received", "bits_per_second")
    /\ At2("end", "sum_received").bits_per_second = 500000000
    /\ Has("end", "sum_sent", "retransmits")
    /\ pa.ret.result.throughput_mbps = <<500, 1>>
    /\ pa.ret.result.retransmissions = <<5>>

\* C19: for a structured UDP output the result has throughput_mbps equal to
\* end.sum.bits_per_second / 1e6, packet_loss equal to end.sum.lost_percent, jitter_ms
\* equal to end.sum.jitter_ms and no retransmission count; 5e8 bit/s, 0.5 % and 2.5 ms
\* parse to 500 Mbps, 0.5 and 2.5.
C19_UdpExtraction ==
    (Parsed /\ pa.protocol = "udp") =>
        /\ pa.ret.raised = "none"
        /\ pa.ret.result.protocol = "udp"
        /\ pa.ret.result.duration = pa.duration
        /\ pa.ret.result.retransmissions = None
        /\ Has("end", "sum", "bits_per_second") =>
               pa.ret.result.throughput_mbps[1] * 1000000 =
                   At2("end", "sum").bits_per_second * pa.ret.result.throughput_mbps[2]
        /\ Has("end", "sum", "lost_percent") =>
               pa.ret.result.packet_loss = <<At2("end", "sum").lost_percent>>
        /\ Has("end", "sum", "jitter_ms") =>
               pa.ret.result.jitter_ms = <<At2("end", "sum").jitter_ms>>
        /\ (/\ Has("end", "sum", "bits_per_second")
            /\ At2("end", "sum").bits_per_second = 500000000
            /\ Has("end", "sum", "lost_percent")
            /\ At2("end", "sum").lost_percent = 5
            /\ Has("end", "sum", "jitter_ms")
            /\ At2("end", "sum").jitter_ms = 25) =>
               /\ pa.ret.result.throughput_mbps = <<500, 1>>
               /\ pa.ret.result.packet_loss = <<5>>
               /\ pa.ret.result.jitter_ms = <<25>>

\* C19 witness: the document of the unit test (5e8 bit/s, 0.5 %, 2.5 ms).
C19_Witness ==
    /\ Parsed
    /\ pa.protocol = "udp"
    /\ Has("end", "sum", "bits_per_second")
    /\ Has("end", "sum", "lost_percent")
    /\ Has("end", "sum", "jitter_ms")
    /\ At2("end", "sum").lost_percent = 5
    /\ pa.ret.result.throughput_mbps = <<500, 1>>
    /\ pa.ret.result.packet_loss = <<5>>
    /\ pa.ret.result.jitter_ms = <<25>>

-----------------------------------------------------------------------------
(* IperfTest: start_server, stop_server, run_test, run_multiple_tests *)

\* A driver d is the IperfTest object and the processes it has spawned:
\* server_process is 0 for None and otherwise the index in procs of the Popen handle
\* it holds; a process is "serving", "exited" (it left by itself) or "terminated".
\* log records what the driver did to the outside: "spawn" (popen of the responder),
\* "settle" (the one-second wait of start_server), "test" (one client invocation)
\* and "sleep" (the pacing delay of run_multiple_tests). returned and failures are the
\* history of run_test: the results it returned, and how often it raised.
NoExc == [type |-> "none"]

NewDriver ==
    [server_process |-> 0, procs |-> <<>>, log |-> <<>>, warnings |-> 0,
     clients |-> 0, unserved |-> 0, returned |-> <<>>, failures |-> 0]

\* The responder held by the driver is alive and accepting a client.
Serving(d) == d.server_process # 0 /\ d.procs[d.server_process].state = "serving"

IperfTest_start_server_mutant(d, protocol, popen) ==
    LET proc == [state |-> "serving", udp |-> (protocol = "udp"), calls |-> <<>>]
    IN  [d |-> [d EXCEPT !.procs = Append(@, proc),
                         !.server_process = Len(d.procs) + 1,
                         !.log = @ \o <<"spawn", "settle">>],
         raised |-> NoExc]

\* start_server(protocol): popen is what server_host.popen does, "ok" or "raises".
IperfTest_start_server(d, protocol, popen) ==
    IF d.server_process # 0
    THEN [d |-> [d EXCEPT !.warnings = @ + 1], raised |-> NoExc]
    ELSE IF popen = "raises"
    THEN [d |-> d, raised |-> [type |-> "OSError", message |-> <<"popen">>]]
    ELSE LET proc == [state |-> "serving", udp |-> (protocol = "udp"), calls |-> <<>>]
         IN  [d |-> [d EXCEPT !.procs = Append(@, proc),
                              !.server_process = Len(d.procs) + 1,
                              !.log = @ \o <<"spawn", "settle">>],
              raised |-> NoExc]

\* terminate() and wait() on the handle; a process that already left stays "exited"
Terminated(proc) ==
    [proc EXCEPT !.state = IF @ = "serving" THEN "terminated" ELSE @,
                 !.calls = @ \o <<"terminate", "wait">>]

IperfTest_stop_server_mutant(d) ==
    IF d.server_process # 0
    THEN [d EXCEPT !.procs[d.server_process] = Terminated(@)]
    ELSE d

IperfTest_stop_server(d) ==
    IF d.server_process # 0
    THEN [d EXCEPT !.procs[d.server_process] = Terminated(@), !.server_process = 0]
    ELSE d

\* The document of a completed run, as iperf3 -J prints it.
GoodOutput(protocol) ==
    [kind |-> "json_object",
     data |-> IF protocol = "tcp"
              THEN [end |-> [sum_sent |-> [bits_per_second |-> 1000000000,
                                           retransmits |-> 5, bytes |-> 1000000],
                             sum_received |-> [bits_per_second |-> 1000000000,
                                               bytes |-> 999000]]]
              ELSE [end |-> [sum |-> [bits_per_second |-> 500000000, lost_percent |-> 5,
                                      jitter_ms |-> 25, bytes |-> 500000]]]]

\* What the client prints when nothing listens on the port: an object with an
\* "error" member and no "end".
RefusedOutput ==
    [kind |-> "json_object", data |-> [error |-> "unable to connect to server"]]

\* What client_host.cmd can do: raise, or return the client's output. A client that
\* finds the responder serving completes a run or prints something else; one that
\* finds no responder reports the refused connection.
ClientOutcomes(serving, protocol) ==
    {[cmd |-> "raises"]}
    \cup IF serving
         THEN {[cmd |-> "returns", output |-> GoodOutput(protocol)],
               [cmd |-> "returns", output |-> [kind |-> "text"]],
               [cmd |-> "returns", output |-> [kind |-> "json_other"]]}
         ELSE {[cmd |-> "returns", output |-> RefusedOutput]}

\* The responder is started with -1 (one-off): it serves one client and exits.
OneOff(d, client) ==
    IF Serving(d) /\ client.cmd = "returns" /\ client.output = GoodOutput("tcp")
    THEN [d EXCEPT !.procs[d.server_process].state = "exited"]
    ELSE IF Serving(d) /\ client.cmd = "returns" /\ client.output = GoodOutput("udp")
    THEN [d EXCEPT !.procs[d.server_process].state = "exited"]
    ELSE d

\* except Exception as e: raise RuntimeError(f"Test iperf3 échoué: {e}")
Wrap(inner) ==
    [type |-> "RuntimeError", message |-> <<"Test iperf3 echoue">> \o inner]

\* run_test(protocol, duration) with json_output; popen and client are what the
\* two hosts do during the call. cause is kept for the analysis only: it is no
\* attribute of the exception.
IperfTest_run_test(d, protocol, duration, popen, client) ==
    LET started == IF d.server_process = 0
                   THEN IperfTest_start_server(d, protocol, popen)
                   ELSE [d |-> d, raised |-> NoExc]
        d1 == started.d
        d2 == OneOff([d1 EXCEPT !.log = Append(@, "test"),
                                !.clients = @ + 1,
                                !.unserved = @ + IF Serving(d1) THEN 0 ELSE 1],
                     client)
        parsed == parse_json_result(client.output, protocol, duration)
    IN  IF started.raised.type # "none"
        THEN [d |-> [d1 EXCEPT !.failures = @ + 1], raised |-> started.raised, ret |-> None,
              cause |-> "start"]
        ELSE IF client.cmd = "raises"
        THEN [d |-> [d2 EXCEPT !.failures = @ + 1], raised |-> Wrap(<<"cmd">>), ret |-> None,
              cause |-> "transport"]
        ELSE IF parsed.raised = "RuntimeError"
        THEN [d |-> [d2 EXCEPT !.failures = @ + 1],
              raised |-> Wrap(<<"Impossible de parser le resultat iperf3">>),
              ret |-> None, cause |-> "parse"]
        ELSE IF parsed.raised = "AttributeError"
        THEN [d |-> [d2 EXCEPT !.failures = @ + 1], raised |-> Wrap(<<"object has no attribute get">>),
              ret |-> None, cause |-> "parse"]
        ELSE [d |-> [d2 EXCEPT !.returned = Append(@, parsed.result)], raised |-> NoExc,
              ret |-> <<parsed.result>>, cause |-> "none"]

MaxCalls == 3

MaxRuns == 3

NoCall == [op |-> "none"]

InitIperf ==
    /\ IdleCampaign
    /\ thresholds = <<>>
    /\ protocols = <<>>
    /\ iterations = 0
    /\ vArgs = NoArgs
    /\ vRet = NotCalled
    /\ pa = NoParse
    /\ lt = NoLatency
    /\ sv = NoResponder
    /\ IdleOthers
    /\ ip \in [active : {TRUE}, protocol : {"tcp", "udp"}, d : {NewDriver},
               pc : {"idle"}, ncalls : {0}, n : {0}, i : {0}, results : {<<>>},
               before : {NewDriver}, last : {NoCall}, seen : {{}}]

IperfIdle == ip.active /\ ip.pc = "idle" /\ ip.ncalls < MaxCalls

\* Every failure of run_test seen so far, with what made it fail.
Seen(out) ==
    IF out.raised.type = "none"
    THEN ip.seen
    ELSE ip.seen \cup {[cause |-> out.cause, exc |-> out.raised]}

CallStartServer ==
    /\ IperfIdle
    /\ \E popen \in {"ok", "raises"} :
          LET out == IperfTest_start_server(ip.d, ip.protocol, popen)
          IN  ip' = [ip EXCEPT !.d = out.d,
                               !.ncalls = @ + 1,
                               !.before = ip.d,
                               !.last = [op |-> "start_server", raised |-> out.raised]]
    /\ UNCHANGED <<campaignVars, vArgs, vRet, pa, lt, sv, sg, tp, tx>>

CallStopServer ==
    /\ IperfIdle
    /\ ip' = [ip EXCEPT !.d = IperfTest_stop_server(ip.d),
                        !.ncalls = @ + 1,
                        !.before = ip.d,
                        !.last = [op |-> "stop_server", raised |-> NoExc]]
    /\ UNCHANGED <<campaignVars, vArgs, vRet, pa, lt, sv, sg, tp, tx>>

CallRunTest ==
    /\ IperfIdle
    /\ \E popen \in {"ok", "raises"} :
       \E client \in ClientOutcomes(Serving(ip.d) \/ (ip.d.server_process = 0 /\ popen = "ok"),
                                    ip.protocol) :
          LET out == IperfTest_run_test(ip.d, ip.protocol, 10, popen, client)
          IN  ip' = [ip EXCEPT !.d = out.d,
                               !.ncalls = @ + 1,
                               !.before = ip.d,
                               !.last = [op |-> "run_test", raised |-> out.raised,
                                         ret |-> out.ret, cause |-> out.cause],
                               !.seen = Seen(out)]
    /\ UNCHANGED <<campaignVars, vArgs, vRet, pa, lt, sv, sg, tp, tx>>

\* run_multiple_tests(protocol, duration, iterations, delay): results = []
MultiBegin ==
    /\ IperfIdle
    /\ \E n \in 0..MaxRuns :
          ip' = [ip EXCEPT !.pc = "multi",
                           !.ncalls = @ + 1,
                           !.n = n,
                           !.i = 0,
                           !.results = <<>>,
                           !.before = ip.d,
                           !.last = [op |-> "run_multiple_tests", state |-> "running"]]
    /\ UNCHANGED <<campaignVars, vArgs, vRet, pa, lt, sv, sg, tp, tx>>

SleepDue_mutant(i, n) == i < n

\* if i < iterations - 1: time.sleep(delay)
SleepDue(i, n) == i < n - 1

Failed_mutant(out) == FALSE

\* the exception of run_test leaves the loop and run_multiple_tests
Failed(out) == out.raised.type # "none"

\* One turn of the for loop: run_test, append, and the pacing sleep.
MultiIteration ==
    /\ ip.active
    /\ ip.pc = "multi"
    /\ ip.i < ip.n
    /\ \E popen \in {"ok", "raises"} :
       \E client \in ClientOutcomes(Serving(ip.d) \/ (ip.d.server_process = 0 /\ popen = "ok"),
                                    ip.protocol) :
          LET out == IperfTest_run_test(ip.d, ip.protocol, 10, popen, client)
              slept == IF SleepDue(ip.i, ip.n)
                       THEN [out.d EXCEPT !.log = Append(@, "sleep")]
                       ELSE out.d
          IN  IF Failed(out)
              THEN ip' = [ip EXCEPT !.d = out.d,
                                    !.pc = "idle",
                                    !.last = [op |-> "run_multiple_tests",
                                              state |-> "raised",
                                              raised |-> out.raised,
                                              failed_at |-> ip.i,
                                              cause |-> out.cause],
                                    !.seen = Seen(out)]
              ELSE ip' = [ip EXCEPT !.d = slept,
                                    !.i = @ + 1,
                                    !.results = @ \o out.ret,
                                    !.seen = Seen(out)]
    /\ UNCHANGED <<campaignVars, vArgs, vRet, pa, lt, sv, sg, tp, tx>>

\* return results
MultiReturn ==
    /\ ip.active
    /\ ip.pc = "multi"
    /\ ip.i >= ip.n
    /\ ip' = [ip EXCEPT !.pc = "idle",
                        !.last = [op |-> "run_multiple_tests", state |-> "returned",
                                  raised |-> NoExc, ret |-> ip.results]]
    /\ UNCHANGED <<campaignVars, vArgs, vRet, pa, lt, sv, sg, tp, tx>>

NextIperf ==
    \/ CallStartServer
    \/ CallStopServer
    \/ CallRunTest
    \/ MultiBegin
    \/ MultiIteration
    \/ MultiReturn

SpecIperf == InitIperf /\ [][NextIperf]_vars

-----------------------------------------------------------------------------
(* Claims on the IperfTest driver *)

LastOp(op) == ip.active /\ ip.pc = "idle" /\ ip.last.op = op

\* The processes spawned and never stopped by stop_server.
Unstopped(d) == {k \in DOMAIN d.procs : d.procs[k].calls = <<>>}

\* What the driver did since the last call began, without the start-up of the
\* responder.
Since == SubSeq(ip.d.log, Len(ip.before.log) + 1, Len(ip.d.log))

Spawns == Cardinality({k \in DOMAIN Since : Since[k] = "spawn"})

Paced == SelectSeq(Since, LAMBDA e : e \in {"test", "sleep"})

Tests == Cardinality({k \in DOMAIN Paced : Paced[k] = "test"})

\* C12: start_server on a driver whose responder is already started spawns no
\* process, leaves server_process unchanged and raises nothing (it only warns);
\* whatever the calls, the only process spawned and not stopped is the one the
\* driver holds.
C12_StartServerIdempotent ==
    /\ (LastOp("start_server") /\ ip.before.server_process # 0) =>
           /\ ip.d.procs = ip.before.procs
           /\ ip.d.server_process = ip.before.server_process
           /\ ip.last.raised = NoExc
           /\ ip.d.warnings = ip.before.warnings + 1
    /\ ip.active =>
           Unstopped(ip.d) = IF ip.d.server_process # 0 THEN {ip.d.server_process} ELSE {}

\* C12 witness: start_server was called on a started driver.
C12_Witness ==
    /\ LastOp("start_server")
    /\ ip.before.server_process # 0
    /\ Len(ip.d.procs) = 1
    /\ ip.d.warnings = 1

\* C13: stop_server on a started driver calls terminate() and then wait() on the
\* handle, once each, and resets server_process to None; on a driver that is not
\* started it changes nothing; a second stop_server changes nothing.
C13_StopServer ==
    LastOp("stop_server") =>
        /\ ip.before.server_process # 0 =>
               /\ ip.d.server_process = 0
               /\ \A k \in DOMAIN ip.d.procs :
                      ip.d.procs[k].calls =
                          IF k = ip.before.server_process
                          THEN ip.before.procs[k].calls \o <<"terminate", "wait">>
                          ELSE ip.before.procs[k].calls
               /\ ip.before.procs[ip.before.server_process].calls = <<>>
        /\ ip.before.server_process = 0 => ip.d = ip.before
        /\ IperfTest_stop_server(ip.d) = ip.d

\* C13 witness: stop_server was called on a started driver.
C13_Witness ==
    /\ LastOp("stop_server")
    /\ ip.before.server_process # 0
    /\ ip.d.procs[ip.before.server_process].calls = <<"terminate", "wait">>

\* C14: run_multiple_tests with N >= 1 from a driver that is not started spawns the
\* responder once, before the first client, invokes the client N times, and every
\* client finds the responder still serving.
C14_ResponderReused ==
    (/\ LastOp("run_multiple_tests")
     /\ ip.last.state = "returned"
     /\ ip.n >= 1
     /\ ip.before.server_process = 0) =>
        /\ Spawns = 1
        /\ Since[1] = "spawn"
        /\ ip.d.clients = ip.before.clients + ip.n
        /\ ip.d.unserved = ip.before.unserved

\* C15: a run_multiple_tests that returns has invoked N tests and slept
\* max(N - 1, 0) times, each sleep between two consecutive tests, and returns the N
\* results in the order of the tests.
C15_Pacing ==
    (LastOp("run_multiple_tests") /\ ip.last.state = "returned") =>
        /\ Len(Paced) = IF ip.n = 0 THEN 0 ELSE 2 * ip.n - 1
        /\ \A k \in DOMAIN Paced : Paced[k] = IF k % 2 = 1 THEN "test" ELSE "sleep"
        /\ Len(ip.last.ret) = ip.n
        /\ ip.last.ret = SubSeq(ip.d.returned, Len(ip.before.returned) + 1,
                                Len(ip.d.returned))

\* C15 witness: three iterations returned three results after two sleeps.
C15_Witness ==
    /\ LastOp("run_multiple_tests")
    /\ ip.last.state = "returned"
    /\ ip.n = 3
    /\ Paced = <<"test", "sleep", "test", "sleep", "test">>
    /\ Len(ip.last.ret) = 3

\* C16: the failure of an iteration leaves run_multiple_tests at once: the loop never
\* goes on after a failed run_test, the call raises the error, the failed test is
\* the last thing the driver did (no sleep, no further test), and no list is
\* returned.
C16_FailurePropagates ==
    /\ (ip.active /\ ip.pc = "multi") => ip.d.failures = ip.before.failures
    /\ (LastOp("run_multiple_tests") /\ ip.last.state = "returned") =>
           ip.d.failures = ip.before.failures
    /\ (LastOp("run_multiple_tests") /\ ip.last.state = "raised") =>
           /\ ip.last.raised.type # "none"
           /\ ip.d.failures = ip.before.failures + 1
           /\ "ret" \notin DOMAIN ip.last
           /\ Len(ip.d.returned) = Len(ip.before.returned) + ip.last.failed_at
           /\ Tests \in {ip.last.failed_at, ip.last.failed_at + 1}
           /\ Paced # <<>> => (Paced[Len(Paced)] = "test" \/ Tests = ip.last.failed_at)
           /\ Len(Paced) <= 2 * ip.last.failed_at + 1

\* C16 witness: the second of three iterations failed after its client ran.
C16_Witness ==
    /\ LastOp("run_multiple_tests")
    /\ ip.last.state = "raised"
    /\ ip.n = 3
    /\ ip.last.failed_at = 1
    /\ Paced = <<"test", "sleep", "test">>

\* C17: the error run_test raises when the output cannot be parsed differs in kind
\* from the error it raises when the client invocation fails.
C17_ParseErrorsDistinguishable ==
    ip.active =>
        \A p \in ip.seen : \A t \in ip.seen :
            (p.cause = "parse" /\ t.cause = "transport") => p.exc.type # t.exc.type

-----------------------------------------------------------------------------
(* Claims on the order of the phases of run() *)

NetworkHeld == "start_network" \in Range(trace) /\ "stop_network" \notin Range(trace)

\* A step of the throughput phase that touches the network: a responder is spawned
\* or a client runs.
ThroughputStepTaken ==
    \/ calls'.iperf_client # calls.iperf_client
    \/ calls'.iperf_server # calls.iperf_server

\* The step in which the latency phase begins.
LatencyStarts == "latency" \notin Range(trace) /\ "latency" \in Range(trace')

\* C11: the phases of a campaign are strictly sequential. The throughput phase acts
\* only while the network is held and before the latency phase has begun; the
\* latency phase begins only while the network is held and after the throughput
\* phase has ended, its responder stopped; and a client of run_multiple_tests starts
\* only after every earlier iteration has returned its result, one client at a time.
C11_PhasesSequential ==
    [][/\ ThroughputStepTaken =>
              /\ NetworkHeld
              /\ "stop_network" \notin Range(trace')
              /\ "latency" \notin Range(trace')
              /\ outcomes.iperf = "none"
              /\ calls'.iperf_client <= calls.iperf_client + 1
              /\ drv.i = Len(drv.results)
       /\ LatencyStarts =>
              /\ NetworkHeld
              /\ "stop_network" \notin Range(trace')
              /\ outcomes.iperf # "none"
              /\ drv.server_process = "None"
       /\ calls'.latency_server # calls.latency_server =>
              /\ LatencyStarts
              /\ calls'.iperf_client = calls.iperf_client
              /\ calls'.iperf_server = calls.iperf_server]_vars

\* C11 witness: the latency responder was started after two throughput clients had
\* run, and the network has been released since.
C11_Witness ==
    /\ calls.iperf_client >= 2
    /\ calls.latency_server = 1
    /\ outcomes.iperf = "ok"
    /\ Pos("iperf") < Pos("latency")
    /\ Pos("latency") < Pos("stop_network")

-----------------------------------------------------------------------------
(* LatencyTest.run_test: the sampler loop and its statistics *)

MaxTicks == 3

\* interval, the default of run_test, and the receive timeout of the client
\* socket, in milliseconds.
IntervalMs == 1000

TimeoutMs == 2000

\* The time a response takes to come back, in whole milliseconds.
RttSamples == {10, 13}

\* What sendto meets: it raises (the request is not counted), or the request leaves
\* and no response will ever come ("lost"), the responder answers with 16 bytes
\* ("full"), or a datagram shorter than 16 bytes comes back ("short").
SendOutcomes == {"raises", "lost", "full", "short"}

\* A response in flight: the request it answers, the client timestamp it echoes and
\* whether it has the 16 bytes.
Response(req, ts, full) == [req |-> req, ts |-> ts, full |-> full]

\* What recvfrom meets, given the responses in flight: the timeout, an error, or any
\* one of the responses (the channel may reorder them), after a delay, consumed or
\* left in flight to be delivered again (duplication). A response still in flight
\* when the tick ends is late or lost.
RecvOutcomes(flying) ==
    {[kind |-> "timeout"], [kind |-> "raises"]}
    \cup {[kind |-> "datagram", r |-> r, delay |-> d, dup |-> dup] :
             r \in flying, d \in RttSamples, dup \in BOOLEAN}

RECURSIVE Sum(_)
Sum(q) == IF q = <<>> THEN 0 ELSE Head(q) + Sum(Tail(q))

Abs(x) == IF x < 0 THEN -x ELSE x

Min(q) == CHOOSE x \in Range(q) : \A y \in Range(q) : x <= y

Max(q) == CHOOSE x \in Range(q) : \A y \in Range(q) : x >= y

\* [abs(rtt_samples[i] - rtt_samples[i-1]) for i in range(1, len(rtt_samples))]
rtt_diffs(q) == [k \in 1..(Len(q) - 1) |-> Abs(q[k + 1] - q[k])]

Zero == <<0, 1>>

Squares(q) == [k \in DOMAIN q |-> q[k] * q[k]]

\* statistics.stdev is the square root of the sample variance (divisor n - 1); the
\* standard deviation is held by its radicand, an exact fraction.
Sqrt(r) == [radicand |-> r]

stdev(q) ==
    Sqrt(Ratio(Len(q) * Sum(Squares(q)) - Sum(q) * Sum(q), Len(q) * (Len(q) - 1)))

jitter_mutant(q) == IF Len(q) > 1 THEN Ratio(Sum(rtt_diffs(q)), Len(q)) ELSE Zero

\* mean(rtt_diffs) if len(rtt_samples) > 1 else 0.0
jitter(q) == IF Len(q) > 1 THEN Ratio(Sum(rtt_diffs(q)), Len(q) - 1) ELSE Zero

EmptyResult_mutant(packets_sent, packets_received) ==
    [rtt_min_ms |-> Zero, rtt_max_ms |-> Zero, rtt_mean_ms |-> Zero,
     rtt_std_ms |-> Sqrt(Zero), jitter_ms |-> Zero, packet_loss_percent |-> Zero,
     packets_sent |-> packets_sent, packets_received |-> packets_received,
     rtt_samples |-> <<>>]

\* if not rtt_samples: the result of a run without any sample
EmptyResult(packets_sent, packets_received) ==
    [rtt_min_ms |-> Zero, rtt_max_ms |-> Zero, rtt_mean_ms |-> Zero,
     rtt_std_ms |-> Sqrt(Zero), jitter_ms |-> Zero, packet_loss_percent |-> <<100, 1>>,
     packets_sent |-> packets_sent, packets_received |-> packets_received,
     rtt_samples |-> <<>>]

\* The statistics computed after the loop, each an exact fraction.
LatencyResult(packets_sent, packets_received, rtt_samples) ==
    IF rtt_samples = <<>>
    THEN EmptyResult(packets_sent, packets_received)
    ELSE [rtt_min_ms |-> <<Min(rtt_samples), 1>>,
          rtt_max_ms |-> <<Max(rtt_samples), 1>>,
          rtt_mean_ms |-> Ratio(Sum(rtt_samples), Len(rtt_samples)),
          rtt_std_ms |-> IF Len(rtt_samples) > 1 THEN stdev(rtt_samples) ELSE Sqrt(Zero),
          jitter_ms |-> jitter(rtt_samples),
          packet_loss_percent |->
              IF packets_sent > 0
              THEN Ratio((packets_sent - packets_received) * 100, packets_sent)
              ELSE Zero,
          packets_sent |-> packets_sent, packets_received |-> packets_received,
          rtt_samples |-> rtt_samples]

NoTick == [send |-> "none", recv |-> "none"]

\* budget is the number of passes the duration allows (0 for a duration of 0).
\* clock is the time of the client; inflight the responses the channel holds.
\* History: sends (the requests that left), answered (the request each sample
\* answers, and the timestamp its response echoed), sleeps, last (the last pass and
\* the counters before it), closed (sock.close() was called).
InitLatency ==
    /\ IdleCampaign
    /\ thresholds = <<>>
    /\ protocols = <<>>
    /\ iterations = 0
    /\ vArgs = NoArgs
    /\ vRet = NotCalled
    /\ ip = NoIperf
    /\ pa = NoParse
    /\ sv = NoResponder
    /\ IdleOthers
    /\ lt \in [active : {TRUE}, pc : {"loop"}, budget : 0..MaxTicks, ticks : {0},
               packets_sent : {0}, packets_received : {0}, rtt_samples : {<<>>},
               clock : {0}, inflight : {{}}, sends : {0}, answered : {<<>>},
               sleeps : {0}, last : {NoTick}, closed : {FALSE}]

Counted_mutant(send) == FALSE

\* packets_sent += 1 is reached when sendto returned
Counted(send) == send # "raises"

Usable_mutant(recv) == recv.kind = "datagram"

\* if len(response) >= 16
Usable(recv) == recv.kind = "datagram" /\ recv.r.full

Survives_mutant(kind) == kind \notin {"timeout", "raises"}

\* except socket.timeout / except Exception: the pass goes on to the sleep
Survives(kind) == TRUE

\* rtt = (server_receive_time - client_ts) * 1000, client_ts unpacked from the
\* response
Rtt(s, recv) == (s.clock + recv.delay) - recv.r.ts

\* The time one pass takes: the wait for the response, then the sleep.
Elapsed(send, recv) ==
    IntervalMs + IF send = "raises" THEN 0
                 ELSE IF recv.kind = "timeout" THEN TimeoutMs
                 ELSE IF recv.kind = "datagram" THEN recv.delay
                 ELSE 0

\* One pass of the while loop on the sampler s: send is what sendto met, flying
\* the responses in flight once the request has left, recv what recvfrom met.
SamplerTick(s, send, flying, recv) ==
    LET got == send # "raises" /\ Usable(recv)
        left == IF send # "raises" /\ recv.kind = "datagram" /\ ~recv.dup
                THEN flying \ {recv.r}
                ELSE flying
    IN  [s EXCEPT
            !.ticks = @ + 1,
            !.packets_sent = IF Counted(send) THEN @ + 1 ELSE @,
            !.sends = IF send # "raises" THEN @ + 1 ELSE @,
            !.packets_received = IF got THEN @ + 1 ELSE @,
            !.rtt_samples = IF got THEN Append(@, Rtt(s, recv)) ELSE @,
            !.answered = IF got THEN Append(@, [req |-> recv.r.req, ts |-> recv.r.ts,
                                                at |-> s.clock + recv.delay])
                         ELSE @,
            !.inflight = left,
            !.sleeps = @ + 1,
            !.clock = @ + Elapsed(send, recv),
            !.last = [send |-> send,
                      recv |-> IF send = "raises" THEN "none"
                               ELSE IF recv.kind = "datagram"
                               THEN IF recv.r.full THEN "full" ELSE "short"
                               ELSE recv.kind,
                      packets_sent |-> s.packets_sent,
                      packets_received |-> s.packets_received,
                      rtt_samples |-> s.rtt_samples,
                      sleeps |-> s.sleeps]]

\* One pass of "while time.time() < end_time". An error of sendto or recvfrom that
\* the pass does not survive leaves run_test through the finally.
Tick ==
    /\ lt.active
    /\ lt.pc = "loop"
    /\ lt.ticks < lt.budget
    /\ \E send \in SendOutcomes :
          LET flying == IF send \in {"full", "short"}
                        THEN lt.inflight
                                 \cup {Response(lt.ticks + 1, lt.clock, send = "full")}
                        ELSE lt.inflight
          IN  \E recv \in RecvOutcomes(flying) :
                  \* an error of sendto is taken by the same except clause
                  /\ send = "raises" => recv.kind = "raises"
                  /\ IF Survives(recv.kind)
                     THEN lt' = SamplerTick(lt, send, flying, recv)
                     ELSE lt' = [lt EXCEPT !.pc = "raised", !.closed = TRUE,
                                           !.ticks = @ + 1]
    /\ UNCHANGED <<campaignVars, vArgs, vRet, ip, pa, sv, sg, tp, tx>>

\* KeyboardInterrupt or SystemExit inside the loop: no except clause takes it, the
\* finally closes the socket and the exception leaves run_test.
Interrupt ==
    /\ lt.active
    /\ lt.pc = "loop"
    /\ lt.ticks < lt.budget
    /\ lt' = [lt EXCEPT !.pc = "interrupted", !.closed = TRUE]
    /\ UNCHANGED <<campaignVars, vArgs, vRet, ip, pa, sv, sg, tp, tx>>

\* The loop is over: close the socket, compute and return the result.
Finish ==
    /\ lt.active
    /\ lt.pc = "loop"
    /\ lt.ticks >= lt.budget
    /\ lt' = [active |-> TRUE, pc |-> "done", budget |-> lt.budget, ticks |-> lt.ticks,
              packets_sent |-> lt.packets_sent,
              packets_received |-> lt.packets_received,
              rtt_samples |-> lt.rtt_samples,
              clock |-> lt.clock, inflight |-> lt.inflight, sends |-> lt.sends,
              answered |-> lt.answered, sleeps |-> lt.sleeps, last |-> lt.last,
              closed |-> TRUE,
              ret |-> LatencyResult(lt.packets_sent, lt.packets_received, lt.rtt_samples)]
    /\ UNCHANGED <<campaignVars, vArgs, vRet, ip, pa, sv, sg, tp, tx>>

NextLatency ==
    \/ Tick
    \/ Interrupt
    \/ Finish

SpecLatency == InitLatency /\ [][NextLatency]_vars

\* C20: the returned packet_loss_percent is (N - R) / N x 100 for N requests sent and
\* R responses received, and 0 when N = 0; five requests with one response lost
\* give 5, 4 and 20.
C20_LossFormula ==
    (lt.active /\ lt.pc = "done") =>
        /\ lt.ret.packets_received <= lt.ret.packets_sent
        /\ lt.ret.packets_sent > 0 =>
               lt.ret.packet_loss_percent[1] * lt.ret.packets_sent =
                   (lt.ret.packets_sent - lt.ret.packets_received) * 100
                       * lt.ret.packet_loss_percent[2]
        /\ lt.ret.packets_sent = 0 => lt.ret.packet_loss_percent = Zero
        /\ (lt.ret.packets_sent = 5 /\ lt.ret.packets_received = 4) =>
               lt.ret.packet_loss_percent = <<20, 1>>

-----------------------------------------------------------------------------
(* Claims on the sampler loop of LatencyTest.run_test *)

Returned == lt.active /\ lt.pc = "done"

\* a <= b for two fractions with positive denominators
LeqRatio(a, b) == a[1] * b[2] <= b[1] * a[2]

\* C21: a run that ends without any response received returns a result with
\* rtt_min, rtt_max, rtt_mean, rtt_std and jitter all 0, a loss of 100 %, no
\* sample, and packets_sent equal to the number of requests that left; no outcome of
\* a pass makes run_test raise.
C21_NoConnectivityReported ==
    /\ lt.active => lt.pc # "raised"
    /\ (Returned /\ lt.packets_received = 0) =>
           /\ lt.ret.rtt_min_ms = Zero
           /\ lt.ret.rtt_max_ms = Zero
           /\ lt.ret.rtt_mean_ms = Zero
           /\ lt.ret.rtt_std_ms = Sqrt(Zero)
           /\ lt.ret.jitter_ms = Zero
           /\ lt.ret.packet_loss_percent = <<100, 1>>
           /\ lt.ret.rtt_samples = <<>>
           /\ lt.ret.packets_received = 0
           /\ lt.ret.packets_sent = lt.sends

\* C21 witness: three passes, one whose send failed and two whose response never
\* came; the result counts two requests and no response.
C21_Witness ==
    /\ Returned
    /\ lt.ticks = 3
    /\ lt.sends = 2
    /\ lt.ret.packets_sent = 2
    /\ lt.ret.packets_received = 0
    /\ lt.ret.packet_loss_percent = <<100, 1>>

\* C22: in every state of the loop and in the result, 0 <= packets_received <=
\* packets_sent and packets_received is the number of samples, whatever the channel
\* loses, delays or duplicates; a pass adds at most one sample.
C22_CountersConsistent ==
    lt.active =>
        /\ 0 <= lt.packets_received
        /\ lt.packets_received <= lt.packets_sent
        /\ lt.packets_received = Len(lt.rtt_samples)
        /\ lt.last # NoTick =>
               /\ Len(lt.rtt_samples) <= Len(lt.last.rtt_samples) + 1
               /\ lt.packets_received <= lt.last.packets_received + 1
        /\ Returned =>
               /\ lt.ret.packets_received <= lt.ret.packets_sent
               /\ lt.ret.packets_received = Len(lt.ret.rtt_samples)

\* C22 witness: the response to the first request was delivered twice, and both
\* deliveries became samples.
C22_Witness ==
    /\ Returned
    /\ Len(lt.answered) = 2
    /\ lt.answered[1].req = 1
    /\ lt.answered[2].req = 1
    /\ lt.ret.packets_received = 2

C24_ShortResponse ==
    (lt.active /\ lt.last.recv = "short") =>
        /\ lt.packets_sent = lt.last.packets_sent + 1
        /\ lt.packets_received = lt.last.packets_received
        /\ lt.rtt_samples = lt.last.rtt_samples
        /\ lt.sleeps = lt.last.sleeps + 1
        /\ lt.pc # "raised"

\* C24 witness: a short response in the second pass, after a sample in the first,
\* and the loop goes on.
C24_Witness ==
    /\ lt.active
    /\ lt.pc = "loop"
    /\ lt.ticks = 2
    /\ lt.ticks < lt.budget
    /\ lt.last.recv = "short"
    /\ lt.packets_sent = 2
    /\ lt.packets_received = 1

\* C26: a receive timeout or a transport error in a pass never ends run_test: the
\* pass adds no response and no sample, the sleep still follows, the loop stays
\* open for the passes the duration allows, and the client socket is closed
\* whenever run_test has been left.
C26_SampleFailuresNonFatal ==
    lt.active =>
        /\ lt.pc # "raised"
        /\ (lt.last.send = "raises" \/ lt.last.recv \in {"timeout", "raises"}) =>
               /\ lt.packets_received = lt.last.packets_received
               /\ lt.rtt_samples = lt.last.rtt_samples
               /\ lt.sleeps = lt.last.sleeps + 1
        /\ lt.sleeps = lt.ticks
        /\ lt.pc = "done" => lt.ticks = lt.budget
        /\ lt.closed <=> lt.pc # "loop"

\* C26 witness: the first pass timed out, the second met a transport error, the
\* third took a sample, and run_test returned with its socket closed.
C26_Witness ==
    /\ Returned
    /\ lt.closed
    /\ lt.ticks = 3
    /\ lt.last.recv = "full"
    /\ lt.packets_sent = 2
    /\ lt.packets_received = 1
    /\ lt.clock > 2 * IntervalMs + TimeoutMs

\* C27: every pass sends one request and adds one to packets_sent, so packets_sent
\* is the number of passes executed, whatever the outcome of each pass.
C27_SentEqualsTicks ==
    lt.active => lt.packets_sent = lt.ticks

\* C28: the samples are in send order (the request of an earlier sample was not
\* sent after the request of a later one), and each sample is the time of its
\* reception minus the client timestamp echoed by the response it was taken from.
C28_SamplesInSendOrder ==
    lt.active =>
        /\ Len(lt.answered) = Len(lt.rtt_samples)
        /\ \A k \in DOMAIN lt.answered :
               lt.rtt_samples[k] = lt.answered[k].at - lt.answered[k].ts
        /\ \A i \in DOMAIN lt.answered : \A j \in DOMAIN lt.answered :
               i < j => lt.answered[i].req <= lt.answered[j].req

-----------------------------------------------------------------------------
(* LatencyTest: start_server, the responder thread, stop_server *)

MaxStarts == 2

MaxStops == 1

MaxDatagrams == 2

\* The least request the responder answers, and the length of its response.
MinRequestLen == 8

ResponseLen == 16

\* The lengths of the datagrams that reach the responder's port.
DatagramLens == {4, 8, 64}

\* A responder thread: pc is "start" (before bind), "bound" (bound, socket not yet
\* published), "check" (at "while self.running"), "recv" (inside recvfrom) or
\* "exited"; sock is the state of the socket it created; bind is how bind ended;
\* call is the state of the call that spawned the thread.
NewThread(op) ==
    [pc |-> "start", sock |-> "none", bind |-> "none", call |-> "running", op |-> op,
     served |-> 0]

\* The port is taken by another process, or by an open bound socket of a thread.
PortTaken(s) ==
    \/ s.foreign
    \/ \E k \in DOMAIN s.threads :
           s.threads[k].bind = "ok" /\ s.threads[k].sock = "open"

\* The threads that are inside their serving loop.
Serving_threads(s) == {k \in DOMAIN s.threads : s.threads[k].pc \in {"check", "recv"}}

NoDatagram == [len |-> 0]

InitResponder ==
    /\ IdleCampaign
    /\ thresholds = <<>>
    /\ protocols = <<>>
    /\ iterations = 0
    /\ vArgs = NoArgs
    /\ vRet = NotCalled
    /\ ip = NoIperf
    /\ pa = NoParse
    /\ lt = NoLatency
    /\ IdleOthers
    /\ sv \in [active : {TRUE}, foreign : BOOLEAN, server_socket : {0},
               server_thread : {0}, running : {FALSE}, threads : {<<>>},
               caller : {[pc |-> "idle"]}, nstarts : {0}, nstops : {0},
               since_stop : {0}, warnings : {0}, raised : {0}, ndatagrams : {0},
               responses : {0}, last_dgram : {NoDatagram}, sampled : {"no"}]

ResponderIdle == sv.active /\ sv.caller.pc = "idle"

Started_mutant(s) == s.server_thread # 0

\* if self.server_socket is not None
Started(s) == s.server_socket # 0

\* start_server after the guard: the flag, the thread object and thread.start()
Spawn(s, op) ==
    [s EXCEPT !.running = TRUE,
              !.threads = Append(@, NewThread(op)),
              !.server_thread = Len(s.threads) + 1,
              !.nstarts = @ + 1,
              !.caller = [pc |-> "sleep", op |-> op, thread |-> Len(s.threads) + 1]]

\* start_server up to thread.start(): the warning and the return on a started
\* responder, otherwise the new thread.
StartServer ==
    /\ ResponderIdle
    /\ sv.nstarts < MaxStarts
    /\ IF Started(sv)
       THEN sv' = [sv EXCEPT !.warnings = @ + 1, !.nstarts = @ + 1,
                             !.since_stop = @ + 1]
       ELSE sv' = Spawn(sv, "start_server")
    /\ UNCHANGED <<campaignVars, vArgs, vRet, ip, pa, lt, sg, tp, tx>>

\* time.sleep(0.5) is over and start_server returns, wherever the thread is.
StartReturn ==
    /\ sv.active
    /\ sv.caller.pc = "sleep"
    /\ sv.caller.op = "start_server"
    /\ sv' = [sv EXCEPT !.caller = [pc |-> "idle"],
                        !.threads[sv.caller.thread].call = "returned",
                        !.since_stop = @ + 1]
    /\ UNCHANGED <<campaignVars, vArgs, vRet, ip, pa, lt, sg, tp, tx>>

\* run_test up to the sampling: start_server if server_socket is None.
RunTestBegin ==
    /\ ResponderIdle
    /\ sv.nstarts < MaxStarts
    /\ sv.sampled = "no"
    /\ IF Started(sv)
       THEN sv' = [sv EXCEPT !.nstarts = @ + 1,
                             !.caller = [pc |-> "sample", op |-> "run_test",
                                         thread |-> sv.server_socket]]
       ELSE sv' = Spawn(sv, "run_test")
    /\ UNCHANGED <<campaignVars, vArgs, vRet, ip, pa, lt, sg, tp, tx>>

\* run_test goes on to create the client socket and to sample; sampled records
\* whether a responder was serving at that moment.
RunTestSample ==
    /\ sv.active
    /\ sv.caller.pc \in {"sleep", "sample"}
    /\ sv.caller.op = "run_test"
    /\ sv' = [sv EXCEPT !.caller = [pc |-> "idle"],
                        !.threads[sv.caller.thread].call =
                            IF sv.caller.pc = "sleep" THEN "returned" ELSE @,
                        !.since_stop = IF sv.caller.pc = "sleep" THEN @ + 1 ELSE @,
                        !.sampled = IF Serving_threads(sv) # {}
                                    THEN "responder" ELSE "no_responder"]
    /\ UNCHANGED <<campaignVars, vArgs, vRet, ip, pa, lt, sg, tp, tx>>

\* stop_server up to the join: the flag is cleared and the published socket closed.
StopServer ==
    /\ ResponderIdle
    /\ sv.nstops < MaxStops
    /\ sv' = [sv EXCEPT !.running = FALSE,
                        !.nstops = @ + 1,
                        !.threads = IF sv.server_socket # 0
                                    THEN [@ EXCEPT ![sv.server_socket].sock = "closed"]
                                    ELSE @,
                        !.caller = [pc |-> "join"]]
    /\ UNCHANGED <<campaignVars, vArgs, vRet, ip, pa, lt, sg, tp, tx>>

\* server_thread.join(timeout=2) returns, the thread exited or not, and
\* server_socket is reset.
StopReturn ==
    /\ sv.active
    /\ sv.caller.pc = "join"
    /\ sv' = [sv EXCEPT !.server_socket = 0,
                        !.since_stop = 0,
                        !.caller = [pc |-> "idle"]]
    /\ UNCHANGED <<campaignVars, vArgs, vRet, ip, pa, lt, sg, tp, tx>>

\* server_loop: socket(), bind(), settimeout(). A bind on a taken port raises; the
\* except clause of the thread logs the error and the thread ends.
ThreadBind ==
    /\ sv.active
    /\ \E k \in DOMAIN sv.threads :
          /\ sv.threads[k].pc = "start"
          /\ IF PortTaken(sv)
             THEN sv' = [sv EXCEPT !.threads[k].pc = "exited",
                                   !.threads[k].bind = "failed"]
             ELSE sv' = [sv EXCEPT !.threads[k].pc = "bound",
                                   !.threads[k].bind = "ok",
                                   !.threads[k].sock = "open"]
    /\ UNCHANGED <<campaignVars, vArgs, vRet, ip, pa, lt, sg, tp, tx>>

\* self.server_socket = sock
ThreadPublish ==
    /\ sv.active
    /\ \E k \in DOMAIN sv.threads :
          /\ sv.threads[k].pc = "bound"
          /\ sv' = [sv EXCEPT !.threads[k].pc = "check", !.server_socket = k]
    /\ UNCHANGED <<campaignVars, vArgs, vRet, ip, pa, lt, sg, tp, tx>>

\* while self.running: into recvfrom, or out of the loop to sock.close()
ThreadCheck ==
    /\ sv.active
    /\ \E k \in DOMAIN sv.threads :
          /\ sv.threads[k].pc = "check"
          /\ IF sv.running
             THEN sv' = [sv EXCEPT !.threads[k].pc = "recv"]
             ELSE sv' = [sv EXCEPT !.threads[k].pc = "exited",
                                   !.threads[k].sock = "closed"]
    /\ UNCHANGED <<campaignVars, vArgs, vRet, ip, pa, lt, sg, tp, tx>>

Answers_mutant(len) == len >= 4

\* if len(data) >= 8
Answers(len) == len >= MinRequestLen

\* The thread k has received a datagram of len bytes; sendto is what the send of the
\* response does, "ok" or "raises" (then the loop is left through the except clause).
Serve(s, k, len, sendto) ==
    IF ~Answers(len)
    THEN [s EXCEPT !.threads[k].pc = "check",
                   !.ndatagrams = @ + 1,
                   !.last_dgram = [len |-> len, thread |-> k, replies |-> 0,
                                   sendto |-> "none"]]
    ELSE IF sendto = "raises"
    THEN [s EXCEPT !.threads[k].pc = "exited",
                   !.threads[k].sock = "closed",
                   !.ndatagrams = @ + 1,
                   !.last_dgram = [len |-> len, thread |-> k, replies |-> 0,
                                   sendto |-> "raises"]]
    ELSE [s EXCEPT !.threads[k].pc = "check",
                   !.threads[k].served = @ + 1,
                   !.ndatagrams = @ + 1,
                   !.responses = @ + 1,
                   !.last_dgram = [len |-> len, thread |-> k, replies |-> 1,
                                   sendto |-> "ok", reply_len |-> ResponseLen,
                                   to_sender |-> TRUE, echoed |-> TRUE]]

\* recvfrom: an error on a socket that stop_server closed, the timeout of one
\* second, or a datagram.
ThreadRecv ==
    /\ sv.active
    /\ \E k \in DOMAIN sv.threads :
          /\ sv.threads[k].pc = "recv"
          /\ IF sv.threads[k].sock = "closed"
             THEN sv' = [sv EXCEPT !.threads[k].pc = "exited"]
             ELSE \/ sv' = [sv EXCEPT !.threads[k].pc = "check"]
                  \/ /\ sv.ndatagrams < MaxDatagrams
                     /\ \E len \in DatagramLens, sendto \in {"ok", "raises"} :
                           sv' = Serve(sv, k, len, sendto)
    /\ UNCHANGED <<campaignVars, vArgs, vRet, ip, pa, lt, sg, tp, tx>>

NextResponder ==
    \/ StartServer
    \/ StartReturn
    \/ RunTestBegin
    \/ RunTestSample
    \/ StopServer
    \/ StopReturn
    \/ ThreadBind
    \/ ThreadPublish
    \/ ThreadCheck
    \/ ThreadRecv

SpecResponder == InitResponder /\ [][NextResponder]_vars

-----------------------------------------------------------------------------
(* Claims on the responder of LatencyTest *)

\* The step in which a responder thread takes a datagram from its socket.
DatagramTaken == sv.active /\ sv'.ndatagrams = sv.ndatagrams + 1

\* C25: for a datagram of at least 8 bytes the responder sends one response of 16
\* bytes, the echoed client timestamp and its own, to the sender; for a shorter one
\* it sends nothing and surfaces no error, and it stays in its loop, its socket
\* open, to serve the requests that follow.
C25_ResponderTolerance ==
    [][DatagramTaken =>
           LET d == sv'.last_dgram
           IN  /\ (d.len >= 8 /\ d.sendto = "ok") =>
                      /\ sv'.responses = sv.responses + 1
                      /\ d.replies = 1
                      /\ d.reply_len = 16
                      /\ d.to_sender
                      /\ d.echoed
                      /\ sv'.threads[d.thread].pc = "check"
               /\ d.len < 8 =>
                      /\ sv'.responses = sv.responses
                      /\ d.replies = 0
                      /\ sv'.raised = sv.raised
                      /\ sv'.threads[d.thread].pc = "check"
                      /\ sv'.threads[d.thread].sock = sv.threads[d.thread].sock]_vars

\* C25 witness: an undersized datagram was dropped and the next request, a valid
\* one, was answered by the same thread.
C25_Witness ==
    /\ sv.active
    /\ sv.ndatagrams = 2
    /\ sv.responses = 1
    /\ sv.last_dgram.len = 8
    /\ sv.last_dgram.replies = 1
    /\ sv.threads[sv.last_dgram.thread].served = 1

\* C29: a failure to bind the responder's socket is reported to the caller of
\* start_server (the call does not return as if the responder had started), it is
\* not retried, and run_test does not go on to sample after it.
C29_BindFailureSurfaced ==
    sv.active =>
        /\ \A k \in DOMAIN sv.threads :
               sv.threads[k].bind = "failed" => sv.threads[k].call # "returned"
        /\ \A k \in DOMAIN sv.threads :
               (sv.threads[k].bind = "failed" /\ sv.threads[k].op = "run_test") =>
                   sv.sampled = "no"
        /\ Len(sv.threads) <= sv.nstarts

\* No thread is between thread.start() and its loop.
Settled == \A k \in DOMAIN sv.threads : sv.threads[k].pc \notin {"start", "bound"}

\* No thread has left its loop: the threads that ended are those whose bind failed.
NoneLeft ==
    \A k \in DOMAIN sv.threads :
        sv.threads[k].pc = "exited" => sv.threads[k].bind = "failed"

\* C30: after two calls of start_server without a stop_server between them exactly
\* one responder loop is active and no error was raised, whenever the second call
\* came, also before the first thread had published its socket or after a bind
\* that failed.
C30_StartTwiceOneResponder ==
    (sv.active /\ sv.caller.pc = "idle" /\ sv.since_stop >= 2 /\ Settled /\ NoneLeft) =>
        /\ Cardinality(Serving_threads(sv)) = 1
        /\ sv.raised = 0

\* stop_server has returned and no start_server or run_test was called since.
StoppedAndLeft ==
    sv.active /\ sv.caller.pc = "idle" /\ sv.nstops >= 1 /\ sv.since_stop = 0

\* C31: once stop_server has returned, server_socket is None and stays None until
\* the next start, so that a later start_server launches a fresh responder, whether
\* stop_server was called before or after the responder thread had bound its socket.
C31_StopLeavesNoSocket == StoppedAndLeft => sv.server_socket = 0

\* C37: server_socket is not None only while a responder loop is alive and able to
\* answer: outside stop_server, the thread that published the socket is inside its
\* loop and the socket is open.
C37_SocketMeansServing ==
    (sv.active /\ sv.caller.pc # "join" /\ sv.server_socket # 0) =>
        /\ sv.server_socket \in Serving_threads(sv)
        /\ sv.threads[sv.server_socket].sock = "open"

-----------------------------------------------------------------------------
(* Claims on the outcome of a campaign *)

PhaseKinds == {"iperf_phase", "latency_phase"}

\* Where an entry stands in the list: the fixed text its message begins with tells
\* the entry of the throughput phase, the entry of the latency phase, a latency or
\* loss violation and a throughput violation apart.
ErrorRank(e) ==
    CASE e.kind = "iperf_phase" -> 1
      [] e.kind = "latency_phase" -> 2
      [] e.kind \in {"latency", "loss"} -> 3
      [] e.kind = "throughput" -> 4

Ordered(errs) ==
    \A i, j \in DOMAIN errs : i < j => ErrorRank(errs[i]) <= ErrorRank(errs[j])

\* C32: every entry of errors is either the entry of a phase that raised or a
\* threshold violation, and tells which; each phase has at most one entry; the list
\* holds the entry of the throughput phase first, then that of the latency phase,
\* then the violations, those of the latency result before those of the throughput
\* results; and the result carries the list as it is.
C32_ErrorsDistinguishable ==
    /\ \A i \in DOMAIN errors : errors[i].kind \in PhaseKinds \cup ViolationKinds
    /\ Count(errors, {"iperf_phase"}) <= 1
    /\ Count(errors, {"latency_phase"}) <= 1
    /\ Ordered(errors)
    /\ result.built => result.errors = errors

\* C32 witness: a result whose list holds the entry of the throughput phase
\* followed by a latency and a loss violation.
C32_Witness ==
    /\ result.built
    /\ Len(result.errors) = 3
    /\ result.errors[1].kind = "iperf_phase"
    /\ result.errors[2].kind = "latency"
    /\ result.errors[3].kind = "loss"

\* run() has reached the finally that stops the network.
TeardownReached == pc = "finally" \/ PastFinally

IperfRaised == outcomes.iperf = "raised"

\* C35: the throughput results are all-or-nothing across protocols. If the tests of
\* a protocol raise, no later protocol runs and iperf_results is empty, also when
\* earlier protocols had completed all their iterations; iperf_results is non-empty
\* only if errors holds no entry of the throughput phase.
C35_ThroughputAllOrNothing ==
    /\ iperf_results # <<>> => Count(errors, {"iperf_phase"}) = 0
    /\ IperfRaised =>
           /\ iperf_results = <<>>
           /\ result.built => result.iperf_results = <<>>
           /\ pc \notin {"iperf", "iperf_protocol", "iperf_test"}
           /\ calls.iperf_server <= drv.proto
           /\ Len(drv.all_results) = IF drv.proto = 0 THEN 0
                                     ELSE iterations * (drv.proto - 1)

\* C35 witness: the second protocol raised after the first had completed its
\* iterations, and the result holds no throughput result.
C35_Witness ==
    /\ IperfRaised
    /\ drv.proto = 2
    /\ Len(drv.all_results) = 2
    /\ result.built
    /\ result.iperf_results = <<>>
    /\ Count(result.errors, {"iperf_phase"}) = 1

\* run() has built its result and nothing raised: the network started, both phases
\* returned and the validation ended.
FailureFree ==
    /\ result.built
    /\ outcomes.start = "ok"
    /\ outcomes.iperf = "ok"
    /\ outcomes.latency = "ok"

\* C36: in a failure-free run with P protocols and I iterations iperf_results holds
\* exactly P x I results, grouped by protocol in the configured order and in
\* iteration order within a protocol, each carrying the protocol it was run for;
\* latency_results holds exactly one result; and each protocol had a driver and a
\* responder of its own, the responder started once the protocol has an iteration
\* to run.
C36_ResultShape ==
    FailureFree =>
        LET P == Len(protocols)
            I == iterations
            rs == result.iperf_results
        IN  /\ Len(rs) = P * I
            /\ \A k \in DOMAIN rs :
                   /\ rs[k].protocol = protocols[((k - 1) \div I) + 1]
                   /\ rs[k].iteration = ((k - 1) % I) + 1
            /\ Len(result.latency_results) = 1
            /\ calls.iperf_client = P * I
            /\ calls.iperf_server = IF I = 0 THEN 0 ELSE P
            /\ calls.latency_server = 1

\* C36 witness: two protocols, udp before tcp, with two iterations each.
C36_Witness ==
    /\ FailureFree
    /\ protocols = <<"udp", "tcp">>
    /\ iterations = 2
    /\ Len(result.iperf_results) = 4
    /\ result.iperf_results[2].protocol = "udp"
    /\ result.iperf_results[3].protocol = "tcp"

\* How many times a step of run() was taken.
Times(step) == Cardinality({i \in DOMAIN trace : trace[i] = step})

\* C38: in every run() that reaches it the result is constructed exactly once,
\* after stop_network has completed, and handed to _generate_reports exactly once,
\* after its construction and before run() returns; the object handed over is the
\* one that is returned.
C38_ReportHandOff ==
    /\ Times("assemble") <= 1
    /\ result.built <=> Times("assemble") = 1
    /\ result.built =>
           /\ Times("stop_network") = 1
           /\ Pos("stop_network") < Pos("assemble")
           /\ simulator = "None"
    /\ calls.reports = Times("report")
    /\ calls.reports <= 1
    /\ calls.reports = 1 =>
           /\ result.built
           /\ Pos("assemble") < Pos("report")
           /\ outcomes.reported = result
    /\ pc = "returned" => (calls.reports = 1 /\ outcomes.reported = result)

\* C38 witness: run() returned the result it had handed to the reports, built
\* after the network was stopped.
C38_Witness ==
    /\ pc = "returned"
    /\ outcomes.reported = result
    /\ result.built
    /\ calls.reports = 1
    /\ calls.net_stop = 1
    /\ result.latency_results # <<>>

-----------------------------------------------------------------------------
(* NetworkSimulator.stop() and the handler of SIGINT and SIGTERM *)

\* The signals delivered to the process during one campaign.
MaxSignals == 2

\* The calls of NetworkSimulator.stop() made after stop_network has returned.
MaxAgain == 1

\* The steps of run() during which the network is held by the try.
Phases == {"iperf", "latency", "validate"}

\* The positions inside NetworkSimulator.stop(): "check" before "if self.net is
\* None", "call" before net.stop(), "running" inside net.stop(), "assign" before
\* "self.net = None".
StopSteps == {"check", "call", "running", "assign"}

\* The main thread is at "starting" inside NetworkSimulator.start() with the network
\* object held and the handlers not yet registered. stack holds the positions of
\* the handler invocations in progress, the innermost last.
InitSignals ==
    /\ IdleCampaign
    /\ thresholds = <<>>
    /\ protocols = <<>>
    /\ iterations = 0
    /\ vArgs = NoArgs
    /\ vRet = NotCalled
    /\ ip = NoIperf
    /\ pa = NoParse
    /\ lt = NoLatency
    /\ sv = NoResponder
    /\ tp = NoTopology
    /\ tx = NoText
    /\ sg = [active |-> TRUE, net |-> "Net", simulator |-> "Sim", installed |-> FALSE,
             main |-> "starting", unwinding |-> FALSE, stack |-> <<>>, nsignals |-> 0,
             net_stops |-> 0, stop_calls |-> 0, noops |-> 0, again |-> 0,
             last_noop |-> TRUE]

\* One step of NetworkSimulator.stop() at position at: the record of the fields it
\* changes and the position that follows, "return" once stop() is over.
simulator_stop(s, at) ==
    CASE at = "check" ->
             IF s.net = "None"
             THEN [net |-> s.net, net_stops |-> s.net_stops, noops |-> s.noops + 1,
                   to |-> "return"]
             ELSE [net |-> s.net, net_stops |-> s.net_stops, noops |-> s.noops,
                   to |-> "call"]
      [] at = "call" ->
             [net |-> s.net, net_stops |-> s.net_stops + 1, noops |-> s.noops,
              to |-> "running"]
      [] at = "running" ->
             [net |-> s.net, net_stops |-> s.net_stops, noops |-> s.noops,
              to |-> "assign"]
      [] at = "assign" ->
             [net |-> "None", net_stops |-> s.net_stops, noops |-> s.noops,
              to |-> "return"]

\* signal.signal(SIGINT, ...) and signal.signal(SIGTERM, ...) at the end of start().
SigInstall ==
    /\ sg.active
    /\ sg.main = "starting"
    /\ sg' = [sg EXCEPT !.installed = TRUE, !.main = "iperf"]
    /\ UNCHANGED <<campaignVars, vArgs, vRet, ip, pa, lt, sv, tp, tx>>

\* run() goes from one phase to the next and into its finally.
SigPhase ==
    /\ sg.active
    /\ sg.stack = <<>>
    /\ sg.main \in Phases
    /\ sg' = [sg EXCEPT !.main = CASE sg.main = "iperf" -> "latency"
                                   [] sg.main = "latency" -> "validate"
                                   [] sg.main = "validate" -> "finally"]
    /\ UNCHANGED <<campaignVars, vArgs, vRet, ip, pa, lt, sv, tp, tx>>

\* stop_network: "if self.simulator:" and the call of simulator.stop(); or a later
\* call of stop() on the simulator that was stopped.
SigStopNetwork ==
    /\ sg.active
    /\ sg.stack = <<>>
    /\ \/ /\ sg.main = "finally"
          /\ sg' = [sg EXCEPT !.main = "check", !.stop_calls = @ + 1]
       \/ /\ sg.main = "returned"
          /\ sg.again < MaxAgain
          /\ sg' = [sg EXCEPT !.main = "check", !.stop_calls = @ + 1,
                              !.again = @ + 1]
    /\ UNCHANGED <<campaignVars, vArgs, vRet, ip, pa, lt, sv, tp, tx>>

\* The main thread takes one step of NetworkSimulator.stop(); after its return
\* stop_network drops the simulator and run() goes on, or the exception in flight
\* leaves run().
SigMainStop ==
    /\ sg.active
    /\ sg.stack = <<>>
    /\ sg.main \in StopSteps
    /\ LET n == simulator_stop(sg, sg.main)
       IN  sg' = [sg EXCEPT
                     !.net = n.net,
                     !.net_stops = n.net_stops,
                     !.noops = n.noops,
                     !.last_noop = IF sg.main = "check" /\ n.to = "return"
                                   THEN sg.net = "None" /\ n.net_stops = sg.net_stops
                                   ELSE @,
                     !.simulator = IF n.to = "return" THEN "None" ELSE @,
                     !.main = IF n.to # "return" THEN n.to
                              ELSE IF sg.unwinding THEN "exited" ELSE "returned"]
    /\ UNCHANGED <<campaignVars, vArgs, vRet, ip, pa, lt, sv, tp, tx>>

\* A signal is delivered between two bytecodes of the main thread. With the handler
\* registered, _signal_handler starts on top of whatever is running, a handler
\* included. Before that, SIGINT raises KeyboardInterrupt in start(), which the
\* finally of run() sees, and SIGTERM ends the process.
SigDeliver ==
    /\ sg.active
    /\ sg.nsignals < MaxSignals
    /\ sg.main \notin {"exited", "killed"}
    /\ IF sg.installed
       THEN sg' = [sg EXCEPT !.nsignals = @ + 1,
                             !.stop_calls = @ + 1,
                             !.stack = Append(@, "check")]
       ELSE \E signum \in {"SIGINT", "SIGTERM"} :
               sg' = [sg EXCEPT !.nsignals = @ + 1,
                                !.unwinding = (signum = "SIGINT"),
                                !.main = IF signum = "SIGINT" THEN "finally"
                                         ELSE "killed"]
    /\ UNCHANGED <<campaignVars, vArgs, vRet, ip, pa, lt, sv, tp, tx>>

\* The innermost handler takes one step of self.stop().
SigHandlerStop ==
    /\ sg.active
    /\ sg.stack # <<>>
    /\ sg.stack[Len(sg.stack)] \in StopSteps
    /\ LET top == Len(sg.stack)
           n == simulator_stop(sg, sg.stack[top])
       IN  sg' = [sg EXCEPT
                     !.net = n.net,
                     !.net_stops = n.net_stops,
                     !.noops = n.noops,
                     !.last_noop = IF sg.stack[top] = "check" /\ n.to = "return"
                                   THEN sg.net = "None" /\ n.net_stops = sg.net_stops
                                   ELSE @,
                     !.stack[top] = IF n.to = "return" THEN "exit" ELSE n.to]
    /\ UNCHANGED <<campaignVars, vArgs, vRet, ip, pa, lt, sv, tp, tx>>

\* sys.exit(0) in the innermost handler: SystemExit passes through every frame that
\* was interrupted. Raised inside a phase it reaches the finally of run(); raised
\* inside the finally, or after run(), it ends the process.
SigExit ==
    /\ sg.active
    /\ sg.stack # <<>>
    /\ sg.stack[Len(sg.stack)] = "exit"
    /\ sg' = [sg EXCEPT !.stack = <<>>,
                        !.unwinding = TRUE,
                        !.main = IF sg.main \in Phases THEN "finally" ELSE "exited"]
    /\ UNCHANGED <<campaignVars, vArgs, vRet, ip, pa, lt, sv, tp, tx>>

NextSignals ==
    \/ SigInstall
    \/ SigPhase
    \/ SigStopNetwork
    \/ SigMainStop
    \/ SigDeliver
    \/ SigHandlerStop
    \/ SigExit

SpecSignals == InitSignals /\ [][NextSignals]_vars

\* C39: for the network that was started net.stop() is invoked at most once, under
\* every interleaving of the handler with the campaign, a signal during a phase or
\* while NetworkSimulator.stop() is executing; and a call of stop() on a simulator
\* that is already stopped does nothing.
C39_SingleTeardown ==
    sg.active => (sg.net_stops <= 1 /\ sg.last_noop)

-----------------------------------------------------------------------------
(* create_topology called on its own *)

\* The largest number of hosts asked for.
MaxTopologyHosts == 3

TopologyTypes == {"star", "line", "mesh", "ring", ""}

\* bandwidth_mbps: None, 0 or a rate.
Bandwidths == {<<>>, <<0>>, <<100>>}

Supported_mutant(topology_type) == TRUE

\* The types for which create_topology has a branch.
Supported(topology_type) == topology_type \in {"star", "line", "mesh"}

Switch == [kind |-> "switch", n |-> 1]

Host(i) == [kind |-> "host", n |-> i]

\* link_params: "bw" is set when bandwidth_mbps is truthy.
link_params(bandwidth_mbps) ==
    [bw |-> IF bandwidth_mbps # <<>> /\ bandwidth_mbps[1] # 0
            THEN bandwidth_mbps ELSE <<>>]

Link(a, b, bandwidth_mbps) == [a |-> a, b |-> b, params |-> link_params(bandwidth_mbps)]

\* _create_star_topology: one link from each host to the switch.
create_star_topology(host_list, bw) ==
    [k \in 1..Len(host_list) |-> Link(host_list[k], Switch, bw)]

\* _create_line_topology: the first host to the switch, then each host to the next.
create_line_topology(host_list, bw) ==
    IF host_list = <<>> THEN <<>>
    ELSE <<Link(host_list[1], Switch, bw)>> \o
         [k \in 1..(Len(host_list) - 1) |-> Link(host_list[k], host_list[k + 1], bw)]

RECURSIVE mesh_links(_, _, _, _)
mesh_links(host_list, i, j, bw) ==
    IF i > Len(host_list) THEN <<>>
    ELSE IF j > Len(host_list) THEN mesh_links(host_list, i + 1, i + 2, bw)
    ELSE <<Link(host_list[i], host_list[j], bw)>> \o mesh_links(host_list, i, j + 1, bw)

\* _create_mesh_topology: each host to every host after it.
create_mesh_topology(host_list, bw) == mesh_links(host_list, 1, 2, bw)

InitTopology ==
    /\ IdleCampaign
    /\ thresholds = <<>>
    /\ protocols = <<>>
    /\ iterations = 0
    /\ vArgs = NoArgs
    /\ vRet = NotCalled
    /\ ip = NoIperf
    /\ pa = NoParse
    /\ lt = NoLatency
    /\ sv = NoResponder
    /\ sg = NoSignals
    /\ tx = NoText
    /\ tp \in [active : {TRUE}, topology_type : TopologyTypes,
               hosts : 0..MaxTopologyHosts, bandwidth_mbps : Bandwidths,
               pc : {"controller"}, controllers : {0}, switches : {0},
               host_list : {<<>>}, links : {<<>>}, raised : {"none"}]

\* net.addController("c0")
TopoController ==
    /\ tp.active
    /\ tp.pc = "controller"
    /\ tp' = [tp EXCEPT !.controllers = @ + 1, !.pc = "switch"]
    /\ UNCHANGED <<campaignVars, vArgs, vRet, ip, pa, lt, sv, sg, tx>>

\* switch = net.addSwitch(switch_name)
TopoSwitch ==
    /\ tp.active
    /\ tp.pc = "switch"
    /\ tp' = [tp EXCEPT !.switches = @ + 1, !.pc = "hosts"]
    /\ UNCHANGED <<campaignVars, vArgs, vRet, ip, pa, lt, sv, sg, tx>>

\* for i in range(1, hosts + 1): net.addDocker(f"h{i}", ...)
TopoAddDocker ==
    /\ tp.active
    /\ tp.pc = "hosts"
    /\ IF Len(tp.host_list) < tp.hosts
       THEN tp' = [tp EXCEPT !.host_list = Append(@, Host(Len(@) + 1))]
       ELSE tp' = [tp EXCEPT !.pc = "links"]
    /\ UNCHANGED <<campaignVars, vArgs, vRet, ip, pa, lt, sv, sg, tx>>

\* The branch of the topology type, or ValueError; then "return net".
TopoLinks ==
    /\ tp.active
    /\ tp.pc = "links"
    /\ IF ~Supported(tp.topology_type)
       THEN tp' = [tp EXCEPT !.raised = "ValueError", !.pc = "raised"]
       ELSE tp' = [tp EXCEPT
                      !.links =
                          CASE tp.topology_type = "star" ->
                                   create_star_topology(tp.host_list, tp.bandwidth_mbps)
                            [] tp.topology_type = "line" ->
                                   create_line_topology(tp.host_list, tp.bandwidth_mbps)
                            [] tp.topology_type = "mesh" ->
                                   create_mesh_topology(tp.host_list, tp.bandwidth_mbps)
                            [] OTHER -> <<>>,
                      !.pc = "returned"]
    /\ UNCHANGED <<campaignVars, vArgs, vRet, ip, pa, lt, sv, sg, tx>>

NextTopology ==
    \/ TopoController
    \/ TopoSwitch
    \/ TopoAddDocker
    \/ TopoLinks

SpecTopology == InitTopology /\ [][NextTopology]_vars

\* create_topology is over.
TopoDone == tp.active /\ tp.pc \in {"returned", "raised"}

\* C33: create_topology raises ValueError for a topology type other than "star",
\* "line" and "mesh", and only then; for "star" with N hosts it returns with one
\* controller, one switch, N hosts and N links, one from each host to the switch.
C33_TopologyTypes ==
    TopoDone =>
        /\ tp.topology_type \notin {"star", "line", "mesh"} =>
               (tp.pc = "raised" /\ tp.raised = "ValueError")
        /\ tp.topology_type = "star" =>
               /\ tp.pc = "returned"
               /\ tp.raised = "none"
               /\ tp.controllers = 1
               /\ tp.switches = 1
               /\ Len(tp.host_list) = tp.hosts
               /\ Len(tp.links) = tp.hosts
               /\ \A i \in 1..tp.hosts :
                      Cardinality({k \in DOMAIN tp.links :
                                      tp.links[k].a = Host(i) /\ tp.links[k].b = Switch}) = 1

\* C33 witness: a type without a branch raised ValueError after the nodes were added.
C33_Witness ==
    /\ TopoDone
    /\ tp.topology_type = "ring"
    /\ tp.raised = "ValueError"
    /\ Len(tp.host_list) = 3

-----------------------------------------------------------------------------
(* _parse_text_result called on its own *)

\* The largest number of whitespace-separated tokens of a line.
MaxTokens == 2

\* A token of a line: a number that float() accepts, a token that contains
\* "bits/sec" with the letters g, m, k of its lower-cased text, or another word.
Number(v) == [kind |-> "number", value |-> v]

Rate(letters) == [kind |-> "rate", letters |-> letters]

Word == [kind |-> "word"]

Tokens == {Number(5), Rate({"g"}), Rate({"m"}), Rate({"k"}), Rate({}), Word}

\* line.split() of the lines considered: up to MaxTokens tokens.
TextLines == UNION {[1..n -> Tokens] : n \in 0..MaxTokens}

\* output.split("\n") of the outputs considered: one line or two.
Texts == {<<l>> : l \in TextLines} \cup {<<l1, l2>> : l1 \in TextLines, l2 \in TextLines}

\* "bits/sec" in part.lower()
IsRate(part) == part.kind = "rate"

before_mutant(parts, i) == IF i = 1 THEN Word ELSE parts[i - 1]

\* parts[i - 1] for the token at position i counted from 1: in front of the first
\* token the index is -1, which is the last token of the line.
before(parts, i) == IF i = 1 THEN parts[Len(parts)] ELSE parts[i - 1]

\* float(s): the value, or ValueError
float(part) == IF part.kind = "number" THEN <<part.value>> ELSE None

\* The if/elif chain on the unit; a unit with none of the letters changes nothing.
scale(value, unit, throughput_mbps) ==
    IF "g" \in unit.letters THEN Ratio(value * 1000, 1)
    ELSE IF "m" \in unit.letters THEN Ratio(value, 1)
    ELSE IF "k" \in unit.letters THEN Ratio(value, 1000)
    ELSE throughput_mbps

\* for i, part in enumerate(parts): the first token with "bits/sec" whose
\* predecessor converts ends the loop.
RECURSIVE scan_parts(_, _, _)
scan_parts(parts, i, throughput_mbps) ==
    IF i > Len(parts) THEN throughput_mbps
    ELSE IF IsRate(parts[i]) /\ float(before(parts, i)) # None
    THEN scale(float(before(parts, i))[1], parts[i], throughput_mbps)
    ELSE scan_parts(parts, i + 1, throughput_mbps)

\* for line in lines
RECURSIVE scan_lines(_, _, _)
scan_lines(lines, k, throughput_mbps) ==
    IF k > Len(lines) THEN throughput_mbps
    ELSE scan_lines(lines, k + 1, scan_parts(lines[k], 1, throughput_mbps))

\* The outcome of _parse_text_result: no statement of it raises.
parse_text_result(lines, protocol, duration) ==
    [raised |-> "none",
     result |-> [protocol |-> protocol,
                 duration |-> duration,
                 throughput_mbps |-> scan_lines(lines, 1, <<0, 1>>),
                 retransmissions |-> None,
                 packet_loss |-> None,
                 jitter_ms |-> None,
                 bytes_sent |-> None,
                 bytes_received |-> None]]

InitText ==
    /\ IdleCampaign
    /\ thresholds = <<>>
    /\ protocols = <<>>
    /\ iterations = 0
    /\ vArgs = NoArgs
    /\ vRet = NotCalled
    /\ ip = NoIperf
    /\ pa = NoParse
    /\ lt = NoLatency
    /\ sv = NoResponder
    /\ sg = NoSignals
    /\ tp = NoTopology
    /\ tx \in [active : {TRUE}, called : {FALSE}, lines : Texts,
               protocol : {"tcp", "udp"}, duration : Durations]

TextCall ==
    /\ tx.active
    /\ ~tx.called
    /\ tx' = [active |-> TRUE, called |-> TRUE, lines |-> tx.lines,
              protocol |-> tx.protocol, duration |-> tx.duration,
              ret |-> parse_text_result(tx.lines, tx.protocol, tx.duration)]
    /\ UNCHANGED <<campaignVars, vArgs, vRet, ip, pa, lt, sv, sg, tp>>

NextText == TextCall

SpecText == InitText /\ [][NextText]_vars

\* The positions of a line where a number is followed by a Giga, Mega or Kilo rate.
Pairs(parts) ==
    {i \in 2..Len(parts) :
        /\ parts[i - 1].kind = "number"
        /\ parts[i].kind = "rate"
        /\ parts[i].letters # {}}

\* The rate in Mbps that the pair ending at position i stands for.
PairMbps(parts, i) ==
    IF "g" \in parts[i].letters THEN Ratio(parts[i - 1].value * 1000, 1)
    ELSE IF "m" \in parts[i].letters THEN Ratio(parts[i - 1].value, 1)
    ELSE Ratio(parts[i - 1].value, 1000)

\* The lines that carry a pair.
PairLines(lines) == {k \in DOMAIN lines : Pairs(lines[k]) # {}}

LastOf(S) == CHOOSE k \in S : \A j \in S : j <= k

\* C40: _parse_text_result never raises; when the text holds a pair of a value and a
\* Giga, Mega or Kilo rate unit, throughput_mbps is the value times 1000, the value
\* or the value over 1000, of a pair of the last line that carries one; it is 0
\* when the text holds no such pair; and the result carries the protocol and the
\* duration asked for and none of the protocol-specific fields.
C40_TextFallback ==
    (tx.active /\ tx.called) =>
        /\ tx.ret.raised = "none"
        /\ LET r == tx.ret.result
               lines == tx.lines
           IN  /\ PairLines(lines) = {} => r.throughput_mbps = <<0, 1>>
               /\ PairLines(lines) # {} =>
                      LET parts == lines[LastOf(PairLines(lines))]
                      IN  \E i \in Pairs(parts) : r.throughput_mbps = PairMbps(parts, i)
               /\ r.protocol = tx.protocol
               /\ r.duration = tx.duration
               /\ r.retransmissions = None
               /\ r.packet_loss = None
               /\ r.jitter_ms = None
               /\ r.bytes_sent = None
               /\ r.bytes_received = None

====
